---------------------------- MODULE Spec2Model ----------------------------
(***************************************************************************)
(* The stateful Transit+JSON decoder of penpot_mcp/services/transit.py as  *)
(* a state machine.                                                        *)
(*                                                                         *)
(* A Python string is a sequence of one-character strings, so that         *)
(* indexing, slicing, len() and chr() are what the code computes.  A       *)
(* Python object (a node of the parsed JSON tree, or a decoded value) is a *)
(* tuple whose first element is its type:                                  *)
(*   <<"str", s>>  <<"int", neg, digits>>  <<"float", m, e>> (m * 10^e)    *)
(*   <<"bool", b>>  <<"none">>  <<"list", items>>                          *)
(*   <<"dict", <<k1, v1>>, <<k2, v2>>, ... in insertion order>>            *)
(* A raised exception travels as the pseudo-object <<"raise", name>>.      *)
(***************************************************************************)
EXTENDS Integers, Sequences, FiniteSets, TLC

\* ------------------------------------------------------------------ bounds

\* Longest array / object the generated input trees contain.
MaxLen == 2

\* Cache Table operations per run of the Cache Table specification.
MaxOps == 2

\* Plugin websockets, and send_command calls, of the relay specification.
MaxConns == 2
MaxSends == 2

\* ------------------------------------------------------------ Python values

PyStr(s) == <<"str", s>>
\* an int of any size: its sign and its decimal digits, no leading zero
PyInt(neg, digits) == <<"int", neg, digits>>
\* a finite float m * 10^e (m not a multiple of 10, or 0 with e = 0), or
\* <<"float", "inf">>, <<"float", "-inf">>, <<"float", "nan">>
PyFloat(m, e) == <<"float", m, e>>
PyBool(b) == <<"bool", b>>
None == <<"none">>
PyList(xs) == <<"list", xs>>
PyDict(ps) == <<"dict", ps>>
Raise(e) == <<"raise", e>>

isinstance(v, t) == v[1] = t

IsRaise(v) == v[1] = "raise"

\* chr(n) for the code points 32..95, which hold every character that
\* _ref_for builds for an index below 48 * 44
Ascii ==
  << " ", "!", "\"", "#", "$", "%", "&", "'", "(", ")", "*", "+", ",", "-",
     ".", "/", "0", "1", "2", "3", "4", "5", "6", "7", "8", "9", ":", ";",
     "<", "=", ">", "?", "@", "A", "B", "C", "D", "E", "F", "G", "H", "I",
     "J", "K", "L", "M", "N", "O", "P", "Q", "R", "S", "T", "U", "V", "W",
     "X", "Y", "Z", "[", "\\", "]", "^", "_" >>

chr(n) == Ascii[n - 31]

\* s[a:] and s[a:b] of Python, for 0 <= a (0-based, b exclusive)
SliceFrom(s, a) == IF a >= Len(s) THEN << >> ELSE SubSeq(s, a + 1, Len(s))

Slice(s, a, b) == IF a >= b THEN << >> ELSE SubSeq(s, a + 1, b)

\* s.startswith(p)
startswith(s, p) == Len(s) >= Len(p) /\ SubSeq(s, 1, Len(p)) = p

\* ------------------------------------------------------------- Cache Table

_CACHE_BASE == 44

_CACHE_BASE_CHAR == 48

_ALWAYS_CACHEABLE_TAGS == {":", "$", "#"}

\* _Cache(): an empty map and the next index 0
_Cache == [map |-> << >>, idx |-> 0]

\* Variants of _ref_for, for testing the properties below: one that wraps
\* around after the single-character codes, one with the two characters of
\* the long code in the other order.
RefForWrapped(idx) == <<"^", chr(_CACHE_BASE_CHAR + (idx % _CACHE_BASE))>>

RefForSwapped(idx) ==
  IF idx < _CACHE_BASE
    THEN <<"^", chr(_CACHE_BASE_CHAR + idx)>>
    ELSE <<"^", chr(_CACHE_BASE_CHAR + (idx % _CACHE_BASE)),
                chr(_CACHE_BASE_CHAR + (idx \div _CACHE_BASE))>>

_ref_for(idx) ==
  IF idx < _CACHE_BASE
    THEN <<"^", chr(_CACHE_BASE_CHAR + idx)>>
    ELSE LET hi == idx \div _CACHE_BASE
             lo == idx % _CACHE_BASE
         IN  <<"^", chr(_CACHE_BASE_CHAR + hi), chr(_CACHE_BASE_CHAR + lo)>>

\* self._map[ref] = s
MapSet(m, ref, s) == (ref :> s) @@ m

\* The test of line 61, after the length test of line 59.
Cacheable(s, as_key) ==
  as_key \/ (s[1] = "~" /\ Len(s) >= 2 /\ s[2] \in _ALWAYS_CACHEABLE_TAGS)

\* Variants of cache: without the length test, without the test of line 61,
\* and one that stores the string but leaves the counter where it is.
CacheAnyLength(c, s, as_key) ==
  IF s # << >> /\ Cacheable(s, as_key)
    THEN [map |-> MapSet(c.map, _ref_for(c.idx), s), idx |-> c.idx + 1]
    ELSE c

CacheEveryString(c, s, as_key) ==
  IF Len(s) < 4
    THEN c
    ELSE [map |-> MapSet(c.map, _ref_for(c.idx), s), idx |-> c.idx + 1]

CacheNoAdvance(c, s, as_key) ==
  IF Len(s) >= 4 /\ Cacheable(s, as_key)
    THEN [map |-> MapSet(c.map, _ref_for(c.idx), s), idx |-> c.idx]
    ELSE c

\* A variant of cache that gives a string it already holds no second slot.
CacheOncePerString(c, s, as_key) ==
  IF Len(s) < 4 \/ ~Cacheable(s, as_key) \/ (\E ref \in DOMAIN c.map : c.map[ref] = s)
    THEN c
    ELSE [map |-> MapSet(c.map, _ref_for(c.idx), s), idx |-> c.idx + 1]

\* _Cache.cache(s, as_key): the cache object after the call
cache(c, s, as_key) ==
  IF Len(s) < 4
    THEN c
    ELSE IF Cacheable(s, as_key)
           THEN [map |-> MapSet(c.map, _ref_for(c.idx), s), idx |-> c.idx + 1]
           ELSE c

\* A variant of resolve that finds nothing.
ResolveNothing(c, ref) == None

\* _Cache.resolve(ref): the stored literal, or None
resolve(c, ref) == IF ref \in DOMAIN c.map THEN c.map[ref] ELSE None

is_cache_ref(s) == Len(s) >= 2 /\ s[1] = "^"



\* --------------------------------------------------- Python's int() and float()

Digits == <<"0", "1", "2", "3", "4", "5", "6", "7", "8", "9">>

IsDigit(ch) == \E d \in 1..10 : Digits[d] = ch

DigitVal(ch) == (CHOOSE d \in 1..10 : Digits[d] = ch) - 1

\* the whitespace str.strip() removes, within the characters modelled
IsSpace(ch) == ch = " "

RECURSIVE lstrip(_)
lstrip(s) == IF s # << >> /\ IsSpace(s[1]) THEN lstrip(Tail(s)) ELSE s

RECURSIVE rstrip(_)
rstrip(s) ==
  IF s # << >> /\ IsSpace(s[Len(s)]) THEN rstrip(SubSeq(s, 1, Len(s) - 1)) ELSE s

strip(s) == rstrip(lstrip(s))

\* digit ("_"? digit)*: the digit groups int() and float() accept
DigitPart(b) ==
  /\ b # << >>
  /\ \A i \in 1..Len(b) :
        \/ IsDigit(b[i])
        \/ /\ b[i] = "_"
           /\ 1 < i /\ i < Len(b)
           /\ IsDigit(b[i - 1]) /\ IsDigit(b[i + 1])

NotUnderscore(ch) == ch # "_"

OnlyDigits(b) == SelectSeq(b, NotUnderscore)

RECURSIVE DropZeros(_)
DropZeros(d) == IF Len(d) > 1 /\ d[1] = "0" THEN DropZeros(Tail(d)) ELSE d

\* the value of a digit sequence that fits 32 bits
RECURSIVE NatOf(_)
NatOf(d) ==
  IF d = << >> THEN 0 ELSE 10 * NatOf(SubSeq(d, 1, Len(d) - 1)) + DigitVal(d[Len(d)])

RECURSIVE DigitsOf(_)
DigitsOf(n) ==
  IF n < 10 THEN <<Digits[n + 1]>> ELSE DigitsOf(n \div 10) \o <<Digits[(n % 10) + 1]>>

\* the int object of a small natural number
IntOf(n) == PyInt(FALSE, DigitsOf(n))

\* sys.get_int_max_str_digits(): int() refuses longer digit strings
IntMaxStrDigits == 4300

\* a str with its sign, if any, removed
Unsigned(t) == IF t # << >> /\ t[1] \in {"+", "-"} THEN Tail(t) ELSE t

IsNegative(t) == t # << >> /\ t[1] = "-"

Magnitude(body) == DropZeros(OnlyDigits(body))

\* int() of a stripped str: [sign] digits, with single underscores between
IntFrom(t) ==
  IF DigitPart(Unsigned(t)) /\ Len(OnlyDigits(Unsigned(t))) <= IntMaxStrDigits
    THEN PyInt(IsNegative(t) /\ Magnitude(Unsigned(t)) # <<"0">>, Magnitude(Unsigned(t)))
    ELSE Raise("ValueError")

\* int(x) for a str x, base 10
py_int(x) == IntFrom(strip(x))

\* the letters of inf, infinity and nan, which float() reads in either case
Lower(ch) ==
  CASE ch = "I" -> "i" [] ch = "N" -> "n" [] ch = "F" -> "f"
    [] ch = "T" -> "t" [] ch = "Y" -> "y" [] ch = "A" -> "a"
    [] OTHER -> ch

IndexOf(s, chars) ==
  IF \E i \in 1..Len(s) : s[i] \in chars
    THEN CHOOSE i \in 1..Len(s) : s[i] \in chars /\ \A j \in 1..(i - 1) : s[j] \notin chars
    ELSE 0

RECURSIVE Normal(_, _)
Normal(m, e) ==
  IF m = 0 THEN PyFloat(0, 0)
  ELSE IF m % 10 = 0 THEN Normal(m \div 10, e + 1)
  ELSE PyFloat(m, e)

\* a < b for two digit sequences without leading zeros
MagLess(a, b) ==
  \/ Len(a) < Len(b)
  \/ /\ Len(a) = Len(b)
     /\ \E i \in 1..Len(a) :
          /\ DigitVal(a[i]) < DigitVal(b[i])
          /\ \A j \in 1..(i - 1) : a[j] = b[j]

RECURSIVE PadRight(_, _)
PadRight(d, width) == IF Len(d) < width THEN PadRight(d \o <<"0">>, width) ELSE d

\* the leading digits of the smallest decimal of exponent 308 that rounds to inf
DblMax ==
  <<"1", "7", "9", "7", "6", "9", "3", "1", "3", "4", "8", "6", "2", "3", "1",
    "5", "8">>

\* the parts of [digits][.digits][(e|E)[sign]digits]
ExpAt(body) == IndexOf(body, {"e", "E"})

MantPart(body) == IF ExpAt(body) = 0 THEN body ELSE SubSeq(body, 1, ExpAt(body) - 1)

ExpPart(body) ==
  IF ExpAt(body) = 0 THEN << >> ELSE SubSeq(body, ExpAt(body) + 1, Len(body))

IntPart(mant) ==
  IF IndexOf(mant, {"."}) = 0 THEN mant ELSE SubSeq(mant, 1, IndexOf(mant, {"."}) - 1)

FracPart(mant) ==
  IF IndexOf(mant, {"."}) = 0 THEN << >>
  ELSE SubSeq(mant, IndexOf(mant, {"."}) + 1, Len(mant))

FloatSyntax(body) ==
  /\ IntPart(MantPart(body)) = << >> \/ DigitPart(IntPart(MantPart(body)))
  /\ FracPart(MantPart(body)) = << >> \/ DigitPart(FracPart(MantPart(body)))
  /\ IntPart(MantPart(body)) # << >> \/ FracPart(MantPart(body)) # << >>
  /\ ExpAt(body) = 0 \/ DigitPart(Unsigned(ExpPart(body)))

\* the digits of the mantissa, the point removed
MantDigits(body) ==
  DropZeros(OnlyDigits(IntPart(MantPart(body))) \o OnlyDigits(FracPart(MantPart(body))))

\* the power of ten that scales MantDigits
ExpValue(body) ==
  (IF ExpAt(body) = 0 THEN 0
   ELSE IF IsNegative(ExpPart(body)) THEN 0 - NatOf(OnlyDigits(Unsigned(ExpPart(body))))
   ELSE NatOf(OnlyDigits(Unsigned(ExpPart(body)))))
  - Len(OnlyDigits(FracPart(MantPart(body))))

Infinite(neg) == <<"float", IF neg THEN "-inf" ELSE "inf">>

\* The float of the decimal md * 10^ev.  Finite values are kept as decimals:
\* the rounding to the nearest double is not modelled, the overflow to inf
\* and the underflow to 0.0 are.
Decimal(neg, md, ev) ==
  LET lead == ev + Len(md) - 1
      wide == Len(md) + Len(DblMax)
  IN  IF md = <<"0">> THEN PyFloat(0, 0)
      ELSE IF \/ lead > 308
              \/ lead = 308 /\ ~MagLess(PadRight(md, wide), PadRight(DblMax, wide))
        THEN Infinite(neg)
      ELSE IF lead < 0 - 324 THEN PyFloat(0, 0)
      ELSE Normal(IF neg THEN 0 - NatOf(md) ELSE NatOf(md), ev)

LowerAll(s) == [i \in 1..Len(s) |-> Lower(s[i])]

\* float() of a stripped str
FloatFrom(t) ==
  IF LowerAll(Unsigned(t)) \in {<<"i", "n", "f">>, <<"i", "n", "f", "i", "n", "i", "t", "y">>}
    THEN Infinite(IsNegative(t))
  ELSE IF LowerAll(Unsigned(t)) = <<"n", "a", "n">> THEN <<"float", "nan">>
  ELSE IF ~FloatSyntax(Unsigned(t)) THEN Raise("ValueError")
  ELSE Decimal(IsNegative(t), MantDigits(Unsigned(t)), ExpValue(Unsigned(t)))

\* float(x) for a str x
py_float(x) == FloatFrom(strip(x))

\* ------------------------------------- datetime.fromtimestamp(...).isoformat()

\* <<quotient, remainder>> of a digit sequence divided by a small divisor
RECURSIVE LongDiv(_, _)
LongDiv(d, by) ==
  IF d = << >> THEN <<0, 0>>
  ELSE LET up == LongDiv(SubSeq(d, 1, Len(d) - 1), by)
           cur == 10 * up[2] + DigitVal(d[Len(d)])
       IN  <<10 * up[1] + (cur \div by), cur % by>>

RECURSIVE Pad(_, _)
Pad(d, width) == IF Len(d) < width THEN Pad(<<"0">> \o d, width) ELSE d

\* year, month, day of a day number counted from 1970-01-01 (the proleptic
\* Gregorian calendar of datetime), by 400-year eras that start on 1 March
Era(days) == (days + 719468) \div 146097

DayOfEra(days) == (days + 719468) % 146097

YearOfEra(doe) == (doe - doe \div 1460 + doe \div 36524 - doe \div 146096) \div 365

DayOfYear(doe) ==
  doe - (365 * YearOfEra(doe) + YearOfEra(doe) \div 4 - YearOfEra(doe) \div 100)

MonthFromMarch(doy) == (5 * doy + 2) \div 153

Month(doy) ==
  IF MonthFromMarch(doy) < 10 THEN MonthFromMarch(doy) + 3 ELSE MonthFromMarch(doy) - 9

Day(doy) == doy - (153 * MonthFromMarch(doy) + 2) \div 5 + 1

civil(days) ==
  << YearOfEra(DayOfEra(days)) + Era(days) * 400
       + (IF Month(DayOfYear(DayOfEra(days))) <= 2 THEN 1 ELSE 0),
     Month(DayOfYear(DayOfEra(days))),
     Day(DayOfYear(DayOfEra(days))) >>

\* HH:MM:SS[.ffffff] of the millisecond ms of a day
TimeOfDay(ms) ==
  Pad(DigitsOf(ms \div 3600000), 2) \o <<":">>
    \o Pad(DigitsOf((ms \div 60000) % 60), 2) \o <<":">>
    \o Pad(DigitsOf((ms \div 1000) % 60), 2)
    \o (IF ms % 1000 = 0 THEN << >> ELSE <<".">> \o Pad(DigitsOf((ms % 1000) * 1000), 6))

DateOf(ymd) ==
  Pad(DigitsOf(ymd[1]), 4) \o <<"-">> \o Pad(DigitsOf(ymd[2]), 2) \o <<"-">>
    \o Pad(DigitsOf(ymd[3]), 2)

\* isoformat() of the UTC datetime `ms` milliseconds into day `days`
isoformat(days, ms) ==
  DateOf(civil(days)) \o <<"T">> \o TimeOfDay(ms) \o <<"+", "0", "0", ":", "0", "0">>

\* 2^63 seconds, in milliseconds: from here on the timestamp is no time_t
TimeTLimitMs ==
  <<"9", "2", "2", "3", "3", "7", "2", "0", "3", "6", "8", "5", "4", "7", "7",
    "5", "8", "0", "8", "0", "0", "0">>

\* 9999-12-31T23:59:59.999 and 0001-01-01T00:00:00, in milliseconds
MaxInstantMs ==
  <<"2", "5", "3", "4", "0", "2", "3", "0", "0", "7", "9", "9", "9", "9", "9">>

MinInstantMs ==
  <<"6", "2", "1", "3", "5", "5", "9", "6", "8", "0", "0", "0", "0", "0">>

\* the digits of 2^1024 number 309: longer ints do not convert to float
FloatMaxDigits == 309

\* whole days and milliseconds into the day of a magnitude of milliseconds
DaysOf(mag) == LongDiv(SubSeq(Pad(mag, 4), 1, Len(Pad(mag, 4)) - 3), 86400)[1]

MsOfDay(mag) ==
  LongDiv(SubSeq(Pad(mag, 4), 1, Len(Pad(mag, 4)) - 3), 86400)[2] * 1000
    + NatOf(SubSeq(Pad(mag, 4), Len(Pad(mag, 4)) - 2, Len(Pad(mag, 4))))

\* datetime.fromtimestamp(n / 1000.0, tz=timezone.utc).isoformat() for the int
\* object n.  The microseconds are those of the milliseconds (exact below
\* 2^32 seconds, where the double keeps them).
Instant(neg, mag) ==
  IF Len(mag) > FloatMaxDigits THEN Raise("OverflowError")
  ELSE IF ~MagLess(mag, TimeTLimitMs) THEN Raise("OverflowError")
  ELSE IF neg /\ MagLess(MinInstantMs, mag) THEN Raise("ValueError")
  ELSE IF ~neg /\ MagLess(MaxInstantMs, mag) THEN Raise("ValueError")
  ELSE IF ~neg THEN PyStr(isoformat(DaysOf(mag), MsOfDay(mag)))
  ELSE IF MsOfDay(mag) = 0 THEN PyStr(isoformat(0 - DaysOf(mag), 0))
  ELSE PyStr(isoformat(0 - DaysOf(mag) - 1, 86400000 - MsOfDay(mag)))

instant(n) == Instant(n[2], n[3])

\* --------------------------------------------------- Tagged Scalar Parser

\* try: return f(rest)  except ValueError: return s
OrLiteral(v, s) == IF v = Raise("ValueError") THEN PyStr(s) ELSE v

\* line 130: int(rest), then the division and fromtimestamp
InstantOf(n) == IF IsRaise(n) THEN n ELSE instant(n)

\* A variant of _parse_tagged that takes the tag $ for a symbol and returns
\* its name.
ParseTaggedSymbols(s) ==
  IF Len(s) < 2 \/ s[1] # "~" THEN PyStr(s)
  ELSE CASE s[2] \in {":", "u", "t", "$"} -> PyStr(SliceFrom(s, 2))
         [] s[2] = "m" -> OrLiteral(InstantOf(py_int(SliceFrom(s, 2))), s)
         [] s[2] = "?" -> PyBool(SliceFrom(s, 2) = <<"t">>)
         [] s[2] \in {"i", "n"} -> OrLiteral(py_int(SliceFrom(s, 2)), s)
         [] s[2] = "d" -> OrLiteral(py_float(SliceFrom(s, 2)), s)
         [] s[2] \in {"~", "^"} -> PyStr(<<s[2]>> \o SliceFrom(s, 2))
         [] OTHER -> PyStr(s)

_parse_tagged(s) ==
  IF Len(s) < 2 \/ s[1] # "~" THEN PyStr(s)
  ELSE CASE s[2] = ":" -> PyStr(SliceFrom(s, 2))
         [] s[2] = "u" -> PyStr(SliceFrom(s, 2))
         [] s[2] = "m" -> OrLiteral(InstantOf(py_int(SliceFrom(s, 2))), s)
         [] s[2] = "t" -> PyStr(SliceFrom(s, 2))
         [] s[2] = "?" -> PyBool(SliceFrom(s, 2) = <<"t">>)
         [] s[2] = "i" -> OrLiteral(py_int(SliceFrom(s, 2)), s)
         [] s[2] = "d" -> OrLiteral(py_float(SliceFrom(s, 2)), s)
         [] s[2] = "n" -> OrLiteral(py_int(SliceFrom(s, 2)), s)
         [] s[2] = "~" -> PyStr(<<"~">> \o SliceFrom(s, 2))
         [] s[2] = "^" -> PyStr(<<"^">> \o SliceFrom(s, 2))
         [] OTHER -> PyStr(s)

\* ----------------------------------------------------------- Python dicts

IsNan(v) == v = <<"float", "nan">>

RECURSIVE Zeros(_)
Zeros(n) == IF n = 0 THEN << >> ELSE <<"0">> \o Zeros(n - 1)

\* The number a key stands for: True == 1 == 1.0 are one key of a dict.
Canon(v) ==
  IF isinstance(v, "bool") THEN PyInt(FALSE, IF v[2] THEN <<"1">> ELSE <<"0">>)
  ELSE IF isinstance(v, "float") /\ Len(v) = 3 /\ v[3] >= 0
    THEN IF v[2] = 0 THEN PyInt(FALSE, <<"0">>)
         ELSE PyInt(v[2] < 0, DigitsOf(IF v[2] < 0 THEN 0 - v[2] ELSE v[2]) \o Zeros(v[3]))
  ELSE v

\* a == b for two keys; a NaN made by float() equals no other object
PyEq(a, b) == ~IsNan(a) /\ ~IsNan(b) /\ Canon(a) = Canon(b)

Hashable(k) == ~isinstance(k, "list") /\ ~isinstance(k, "dict")

\* A variant of dict_set that puts every key first.
DictSetFront(out, key, val) ==
  IF ~Hashable(key) THEN Raise("TypeError") ELSE <<<<key, val>>>> \o out

\* out[key] = val on the entries of a dict, kept in insertion order: an equal
\* key keeps its place and its first key object, a list or dict key raises
dict_set(out, key, val) ==
  IF ~Hashable(key) THEN Raise("TypeError")
  ELSE IF \E i \in 1..Len(out) : PyEq(out[i][1], key)
    THEN LET i == CHOOSE j \in 1..Len(out) : PyEq(out[j][1], key)
         IN  [out EXCEPT ![i] = <<out[i][1], val>>]
  ELSE Append(out, <<key, val>>)

\* ------------------------------------------------------------ str(payload)

RECURSIVE Escaped(_, _)
Escaped(s, quote) ==
  IF s = << >> THEN << >>
  ELSE (IF s[1] = quote \/ s[1] = "\\" THEN <<"\\", s[1]>> ELSE <<s[1]>>)
         \o Escaped(Tail(s), quote)

Contains(s, ch) == \E i \in 1..Len(s) : s[i] = ch

\* repr() of a float kept as m * 10^e
float_repr(v) ==
       LET neg == v[2] < 0
           d == DigitsOf(IF neg THEN 0 - v[2] ELSE v[2])
           e == v[3]
           decpt == Len(d) + e
           ex == decpt - 1
           body ==
             IF decpt > 16 \/ decpt < 0 - 3
               THEN <<d[1]>> \o (IF Len(d) > 1 THEN <<".">> \o Tail(d) ELSE << >>)
                      \o <<"e", IF ex < 0 THEN "-" ELSE "+">>
                      \o Pad(DigitsOf(IF ex < 0 THEN 0 - ex ELSE ex), 2)
             ELSE IF e >= 0 THEN d \o Zeros(e) \o <<".", "0">>
             ELSE IF decpt > 0 THEN SubSeq(d, 1, decpt) \o <<".">> \o SubSeq(d, decpt + 1, Len(d))
             ELSE <<"0", ".">> \o Zeros(0 - decpt) \o d
       IN  (IF neg THEN <<"-">> ELSE << >>) \o body

RECURSIVE py_repr(_)
RECURSIVE JoinRepr(_)
\* repr(a), ", ", repr(b), ... for a sequence of objects
JoinRepr(xs) ==
  IF xs = << >> THEN << >>
  ELSE IF Len(xs) = 1 THEN py_repr(xs[1])
  ELSE py_repr(xs[1]) \o <<",", " ">> \o JoinRepr(Tail(xs))

RECURSIVE JoinItems(_)
JoinItems(ps) ==
  IF ps = << >> THEN << >>
  ELSE py_repr(ps[1][1]) \o <<":", " ">> \o py_repr(ps[1][2])
         \o (IF Len(ps) = 1 THEN << >> ELSE <<",", " ">> \o JoinItems(Tail(ps)))

\* repr(v), for strings of printable ASCII
py_repr(v) ==
  CASE isinstance(v, "str") ->
         LET q == IF Contains(v[2], "'") /\ ~Contains(v[2], "\"") THEN "\"" ELSE "'"
         IN  <<q>> \o Escaped(v[2], q) \o <<q>>
    [] isinstance(v, "int") -> (IF v[2] THEN <<"-">> ELSE << >>) \o v[3]
    [] isinstance(v, "bool") ->
         IF v[2] THEN <<"T", "r", "u", "e">> ELSE <<"F", "a", "l", "s", "e">>
    [] isinstance(v, "none") -> <<"N", "o", "n", "e">>
    [] isinstance(v, "float") ->
         IF Len(v) = 2
           THEN (IF v[2] = "inf" THEN <<"i", "n", "f">>
                 ELSE IF v[2] = "-inf" THEN <<"-", "i", "n", "f">>
                 ELSE <<"n", "a", "n">>)
           ELSE float_repr(v)
    [] isinstance(v, "list") -> <<"[">> \o JoinRepr(v[2]) \o <<"]">>
    [] isinstance(v, "dict") -> <<"{">> \o JoinItems(v[2]) \o <<"}">>

\* str(v)
py_str(v) == IF isinstance(v, "str") THEN v[2] ELSE py_repr(v)

\* ------------------------------------------------------------ json.loads

JSONDecodeError == <<Raise("JSONDecodeError"), 0>>

At(t, i) == IF 1 <= i /\ i <= Len(t) THEN t[i] ELSE ""

RECURSIVE SkipWs(_, _)
SkipWs(t, i) == IF At(t, i) \in {" ", "\t", "\n", "\r"} THEN SkipWs(t, i + 1) ELSE i

\* the first position from i on that holds no digit
DigitRun(t, i) ==
  IF \A j \in i..Len(t) : IsDigit(t[j]) THEN Len(t) + 1
  ELSE CHOOSE j \in i..Len(t) :
         /\ ~IsDigit(t[j])
         /\ \A k \in {k \in i..Len(t) : ~IsDigit(t[k])} : j <= k

\* the characters a backslash escape of a JSON string stands for (no \b, \u)
Unescape(ch) ==
  CASE ch = "\"" -> "\"" [] ch = "\\" -> "\\" [] ch = "/" -> "/"
    [] ch = "n" -> "\n" [] ch = "t" -> "\t" [] ch = "r" -> "\r" [] ch = "f" -> "\f"

\* the string whose opening quote is before position i
RECURSIVE ScanString(_, _, _)
ScanString(t, i, acc) ==
  IF i > Len(t) THEN JSONDecodeError
  ELSE IF t[i] = "\"" THEN <<PyStr(acc), i + 1>>
  ELSE IF t[i] \in {"\t", "\n", "\r", "\f"} THEN JSONDecodeError
  ELSE IF t[i] = "\\"
    THEN IF At(t, i + 1) \in {"\"", "\\", "/", "n", "t", "r", "f"}
           THEN ScanString(t, i + 2, Append(acc, Unescape(t[i + 1])))
           ELSE JSONDecodeError
  ELSE ScanString(t, i + 1, Append(acc, t[i]))

\* NUMBER_RE of json.scanner: (-?(?:0|[1-9]\d*))(\.\d+)?([eE][-+]?\d+)?
\* the positions after the sign, the integer, the fraction and the exponent
IntStart(t, i) == IF At(t, i) = "-" THEN i + 1 ELSE i

IntEnd(t, i) ==
  IF At(t, IntStart(t, i)) = "0" THEN IntStart(t, i) + 1 ELSE DigitRun(t, IntStart(t, i))

FracEnd(t, k) ==
  IF At(t, k) = "." /\ IsDigit(At(t, k + 1)) THEN DigitRun(t, k + 1) ELSE k

ExpDigits(t, k) == IF At(t, k + 1) \in {"+", "-"} THEN k + 2 ELSE k + 1

ExpEnd(t, k) ==
  IF At(t, k) \in {"e", "E"} /\ IsDigit(At(t, ExpDigits(t, k)))
    THEN DigitRun(t, ExpDigits(t, k))
    ELSE k

NumberEnd(t, i) == ExpEnd(t, FracEnd(t, IntEnd(t, i)))

ScanNumber(t, i) ==
  IF IntEnd(t, i) = IntStart(t, i) THEN JSONDecodeError
  ELSE IF NumberEnd(t, i) = IntEnd(t, i)
    THEN <<py_int(SubSeq(t, i, NumberEnd(t, i) - 1)), NumberEnd(t, i)>>
  ELSE <<py_float(SubSeq(t, i, NumberEnd(t, i) - 1)), NumberEnd(t, i)>>

Literal(t, i, word) ==
  i + Len(word) - 1 <= Len(t) /\ SubSeq(t, i, i + Len(word) - 1) = word

RECURSIVE ScanValue(_, _)
RECURSIVE ScanArray(_, _, _)
RECURSIVE ScanObject(_, _, _)

\* the elements of an array from position i (after "[" or ","), acc so far
ScanArray(t, i, acc) ==
  LET v == ScanValue(t, SkipWs(t, i))
      j == SkipWs(t, v[2])
  IN  IF IsRaise(v[1]) THEN <<v[1], 0>>
      ELSE IF At(t, j) = "," THEN ScanArray(t, j + 1, Append(acc, v[1]))
      ELSE IF At(t, j) = "]" THEN <<PyList(Append(acc, v[1])), j + 1>>
      ELSE JSONDecodeError

\* the members of an object from position i (after "{" or ","), acc so far;
\* a repeated name keeps its place and takes the later value
ScanObject(t, i, acc) ==
  LET i1 == SkipWs(t, i)
      k == ScanString(t, i1 + 1, << >>)
      i2 == SkipWs(t, k[2])
      v == ScanValue(t, SkipWs(t, i2 + 1))
      j == SkipWs(t, v[2])
  IN  IF At(t, i1) # "\"" THEN JSONDecodeError
      ELSE IF IsRaise(k[1]) THEN JSONDecodeError
      ELSE IF At(t, i2) # ":" THEN JSONDecodeError
      ELSE IF IsRaise(v[1]) THEN <<v[1], 0>>
      ELSE IF At(t, j) = "," THEN ScanObject(t, j + 1, dict_set(acc, k[1], v[1]))
      ELSE IF At(t, j) = "}" THEN <<PyDict(dict_set(acc, k[1], v[1])), j + 1>>
      ELSE JSONDecodeError

\* scan_once of json.scanner: the value that starts at position i
ScanValue(t, i) ==
  LET ch == At(t, i)
  IN  CASE ch = "\"" -> ScanString(t, i + 1, << >>)
        [] ch = "[" ->
             IF At(t, SkipWs(t, i + 1)) = "]"
               THEN <<PyList(<< >>), SkipWs(t, i + 1) + 1>>
               ELSE ScanArray(t, i + 1, << >>)
        [] ch = "{" ->
             IF At(t, SkipWs(t, i + 1)) = "}"
               THEN <<PyDict(<< >>), SkipWs(t, i + 1) + 1>>
               ELSE ScanObject(t, i + 1, << >>)
        [] ch = "n" /\ Literal(t, i, <<"n", "u", "l", "l">>) -> <<None, i + 4>>
        [] ch = "t" /\ Literal(t, i, <<"t", "r", "u", "e">>) -> <<PyBool(TRUE), i + 4>>
        [] ch = "f" /\ Literal(t, i, <<"f", "a", "l", "s", "e">>) -> <<PyBool(FALSE), i + 5>>
        [] ch = "N" /\ Literal(t, i, <<"N", "a", "N">>) -> <<<<"float", "nan">>, i + 3>>
        [] ch = "I" /\ Literal(t, i, <<"I", "n", "f", "i", "n", "i", "t", "y">>) ->
             <<<<"float", "inf">>, i + 8>>
        [] ch = "-" /\ Literal(t, i, <<"-", "I", "n", "f", "i", "n", "i", "t", "y">>) ->
             <<<<"float", "-inf">>, i + 9>>
        [] OTHER -> ScanNumber(t, i)

\* json.loads(t): the tree, or Raise("JSONDecodeError"), or the ValueError
\* of int() on an integer of too many digits
json_loads(t) ==
  LET v == ScanValue(t, SkipWs(t, 1))
  IN  IF IsRaise(v[1]) THEN v[1]
      ELSE IF SkipWs(t, v[2]) <= Len(t) THEN Raise("JSONDecodeError")
      ELSE v[1]

\* ------------------------------------------------------ Structural Decoder
\*
\* The recursion of _decode / _decode_list / _decode_tagged_verbose is run on
\* an explicit stack.  The control of a call is one of
\*   eval: _decode(v, cache, as_key) is about to be called,
\*   loop: the innermost loop tests its condition,
\*   ret:  a _decode call has returned v (or raised) to its caller;
\* a frame is a loop in progress: "elems" a list comprehension over xs,
\* "pairs" a while loop over the flat key/value array xs, "items" the loop
\* over the items of an object.  i is the Python index of the loop.

EvalCtl(v, as_key) == [op |-> "eval", v |-> v, as_key |-> as_key]

LoopCtl == [op |-> "loop", v |-> None, as_key |-> FALSE]

RetCtl(v) == [op |-> "ret", v |-> v, as_key |-> FALSE]

Frame(f, xs) ==
  [f |-> f, xs |-> xs, i |-> 0, out |-> << >>, key |-> None, phase |-> "key"]

\* The Cache Table call a step makes, if any.
NoOp == [name |-> "none", s |-> << >>, as_key |-> FALSE, n |-> 0, ret |-> None]

CacheOp(s, as_key) ==
  [name |-> "cache", s |-> s, as_key |-> as_key, n |-> 0, ret |-> None]

ResolveOp(ref, ret) ==
  [name |-> "resolve", s |-> ref, as_key |-> FALSE, n |-> 0, ret |-> ret]

RefForOp(idx, ret) ==
  [name |-> "_ref_for", s |-> << >>, as_key |-> FALSE, n |-> idx, ret |-> ret]

Push(stack, fr) == Append(stack, fr)

Pop(stack) == SubSeq(stack, 1, Len(stack) - 1)

Top(stack) == stack[Len(stack)]

SetTop(stack, fr) == [stack EXCEPT ![Len(stack)] = fr]

\* Variants of _decode_str: one that never looks a reference up, one that
\* returns the stored literal as it is, one that raises on a reference the
\* table does not hold.
DecodeStrNoLookup(s, ch, as_key) ==
  IF is_cache_ref(s)
    THEN [val |-> PyStr(s), cache |-> ch, op |-> ResolveOp(s, resolve(ch, s))]
    ELSE [val |-> IF Len(s) >= 2 /\ s[1] = "~" THEN _parse_tagged(s) ELSE PyStr(s),
          cache |-> cache(ch, s, as_key),
          op |-> CacheOp(s, as_key)]

DecodeStrRawHit(s, ch, as_key) ==
  IF is_cache_ref(s)
    THEN [val |-> IF resolve(ch, s) # None THEN PyStr(resolve(ch, s)) ELSE PyStr(s),
          cache |-> ch,
          op |-> ResolveOp(s, resolve(ch, s))]
    ELSE [val |-> IF Len(s) >= 2 /\ s[1] = "~" THEN _parse_tagged(s) ELSE PyStr(s),
          cache |-> cache(ch, s, as_key),
          op |-> CacheOp(s, as_key)]

DecodeStrDanglingRaises(s, ch, as_key) ==
  IF is_cache_ref(s)
    THEN [val |-> IF resolve(ch, s) # None THEN _parse_tagged(resolve(ch, s))
                  ELSE Raise("KeyError"),
          cache |-> ch,
          op |-> ResolveOp(s, resolve(ch, s))]
    ELSE [val |-> IF Len(s) >= 2 /\ s[1] = "~" THEN _parse_tagged(s) ELSE PyStr(s),
          cache |-> cache(ch, s, as_key),
          op |-> CacheOp(s, as_key)]

\* A variant of _decode_str that registers a reference the table does not
\* hold, as it registers any other string.
DecodeStrKeepsDangling(s, ch, as_key) ==
  IF is_cache_ref(s)
    THEN [val |-> IF resolve(ch, s) # None THEN _parse_tagged(resolve(ch, s)) ELSE PyStr(s),
          cache |-> IF resolve(ch, s) # None THEN ch ELSE cache(ch, s, as_key),
          op |-> ResolveOp(s, resolve(ch, s))]
    ELSE [val |-> IF Len(s) >= 2 /\ s[1] = "~" THEN _parse_tagged(s) ELSE PyStr(s),
          cache |-> cache(ch, s, as_key),
          op |-> CacheOp(s, as_key)]

\* _decode_str(s, cache, as_key): the value returned and the cache after it
_decode_str(s, ch, as_key) ==
  IF is_cache_ref(s)
    THEN LET resolved == resolve(ch, s)
         IN  [val |-> IF resolved # None THEN _parse_tagged(resolved) ELSE PyStr(s),
              cache |-> ch,
              op |-> ResolveOp(s, resolved)]
    ELSE [val |-> IF Len(s) >= 2 /\ s[1] = "~" THEN _parse_tagged(s) ELSE PyStr(s),
          cache |-> cache(ch, s, as_key),
          op |-> CacheOp(s, as_key)]

\* A variant of the coercion that drops an element equal to the one before
\* it.
AsElemsNoRepeat(payload) ==
  IF ~isinstance(payload, "list") THEN <<payload>>
  ELSE IF Len(payload[2]) = 2 /\ payload[2][1] = payload[2][2] THEN <<payload[2][1]>>
  ELSE payload[2]

\* payload if isinstance(payload, list) else [payload]
AsElems(payload) == IF isinstance(payload, "list") THEN payload[2] ELSE <<payload>>

TagSet == <<"s", "e", "t">>
TagList == <<"l", "i", "s", "t">>
TagCmap == <<"c", "m", "a", "p">>
TagOrderedSet == <<"o", "r", "d", "e", "r", "e", "d", "-", "s", "e", "t">>
TagUri == <<"u", "r", "i">>
TagPrefix == <<"~", "#">>
MapSentinel == <<"^", " ">>

\* A variant of the tagged-value branch that keeps the tag of a generic
\* tagged value in front of its payload.
TaggedValueKeepsTag(tag, payload, stack) ==
  IF tag \in {TagSet, TagList, TagOrderedSet}
    THEN [ctl |-> LoopCtl, stack |-> Push(stack, Frame("elems", AsElems(payload)))]
  ELSE IF tag = TagCmap /\ isinstance(payload, "list")
    THEN [ctl |-> LoopCtl, stack |-> Push(stack, Frame("pairs", payload[2]))]
  ELSE [ctl |-> LoopCtl, stack |-> Push(stack, Frame("elems", <<PyStr(tag), payload>>))]

\* The tagged-value branch of _decode_list (lines 190-213): the control and
\* the stack with which the call goes on.
TaggedValue(tag, payload, stack) ==
  IF tag \in {TagSet, TagList, TagOrderedSet}
    THEN [ctl |-> LoopCtl, stack |-> Push(stack, Frame("elems", AsElems(payload)))]
  ELSE IF tag = TagCmap /\ isinstance(payload, "list")
    THEN [ctl |-> LoopCtl, stack |-> Push(stack, Frame("pairs", payload[2]))]
  ELSE [ctl |-> EvalCtl(payload, FALSE), stack |-> stack]

\* A variant of _decode_tagged_verbose without the cmap branch.
VerboseWithoutCmap(tag, payload, stack) ==
  IF tag = TagUri
    THEN [ctl |-> RetCtl(IF isinstance(payload, "str") THEN payload
                         ELSE PyStr(py_str(payload))),
          stack |-> stack]
  ELSE IF tag \in {TagSet, TagList, TagOrderedSet}
    THEN [ctl |-> LoopCtl, stack |-> Push(stack, Frame("elems", AsElems(payload)))]
  ELSE [ctl |-> EvalCtl(payload, FALSE), stack |-> stack]

\* _decode_tagged_verbose(tag, payload, cache)
_decode_tagged_verbose(tag, payload, stack) ==
  IF tag = TagUri
    THEN [ctl |-> RetCtl(IF isinstance(payload, "str") THEN payload
                         ELSE PyStr(py_str(payload))),
          stack |-> stack]
  ELSE IF tag \in {TagSet, TagList, TagOrderedSet}
    THEN [ctl |-> LoopCtl, stack |-> Push(stack, Frame("elems", AsElems(payload)))]
  ELSE IF tag = TagCmap /\ isinstance(payload, "list")
    THEN [ctl |-> LoopCtl, stack |-> Push(stack, Frame("pairs", payload[2]))]
  ELSE [ctl |-> EvalCtl(payload, FALSE), stack |-> stack]

\* A variant of _decode_list that pairs the last element of a sentinel map
\* of odd length with None.
DecodeListPadded(lst, stack, ch) ==
  IF lst = << >> THEN [ctl |-> RetCtl(PyList(<< >>)), stack |-> stack, cache |-> ch, op |-> NoOp]
  ELSE
    LET first == lst[1]
        literal == isinstance(first, "str") /\ startswith(first[2], TagPrefix)
        isref == isinstance(first, "str") /\ ~literal /\ is_cache_ref(first[2])
        resolved == resolve(ch, first[2])
        tag_str == IF literal THEN first[2]
                   ELSE IF isref /\ resolved # None /\ startswith(resolved, TagPrefix)
                     THEN resolved
                   ELSE None
        ch1 == IF literal THEN cache(ch, first[2], FALSE) ELSE ch
        op1 == IF literal THEN CacheOp(first[2], FALSE)
               ELSE IF isref THEN ResolveOp(first[2], resolved)
               ELSE NoOp
        t == TaggedValue(SliceFrom(tag_str, 2), lst[2], stack)
    IN  IF first = PyStr(MapSentinel)
          THEN [ctl |-> LoopCtl, stack |-> Push(stack, Frame("pairs", IF Len(lst) % 2 = 0 THEN Append(Tail(lst), None)
                                                   ELSE Tail(lst))),
                cache |-> ch, op |-> NoOp]
        ELSE IF tag_str # None /\ Len(lst) >= 2
          THEN [ctl |-> t.ctl, stack |-> t.stack, cache |-> ch1, op |-> op1]
        ELSE [ctl |-> LoopCtl, stack |-> Push(stack, Frame("elems", lst)),
              cache |-> ch1, op |-> op1]

\* _decode_list(lst, cache) up to its first recursive call
_decode_list(lst, stack, ch) ==
  IF lst = << >> THEN [ctl |-> RetCtl(PyList(<< >>)), stack |-> stack, cache |-> ch, op |-> NoOp]
  ELSE
    LET first == lst[1]
        literal == isinstance(first, "str") /\ startswith(first[2], TagPrefix)
        isref == isinstance(first, "str") /\ ~literal /\ is_cache_ref(first[2])
        resolved == resolve(ch, first[2])
        tag_str == IF literal THEN first[2]
                   ELSE IF isref /\ resolved # None /\ startswith(resolved, TagPrefix)
                     THEN resolved
                   ELSE None
        ch1 == IF literal THEN cache(ch, first[2], FALSE) ELSE ch
        op1 == IF literal THEN CacheOp(first[2], FALSE)
               ELSE IF isref THEN ResolveOp(first[2], resolved)
               ELSE NoOp
        t == TaggedValue(SliceFrom(tag_str, 2), lst[2], stack)
    IN  IF first = PyStr(MapSentinel)
          THEN [ctl |-> LoopCtl, stack |-> Push(stack, Frame("pairs", Tail(lst))),
                cache |-> ch, op |-> NoOp]
        ELSE IF tag_str # None /\ Len(lst) >= 2
          THEN [ctl |-> t.ctl, stack |-> t.stack, cache |-> ch1, op |-> op1]
        ELSE [ctl |-> LoopCtl, stack |-> Push(stack, Frame("elems", lst)),
              cache |-> ch1, op |-> op1]

\* _decode(val, cache, as_key) up to its first recursive call
_decode(val, as_key, stack, ch) ==
  IF isinstance(val, "str")
    THEN LET r == _decode_str(val[2], ch, as_key)
         IN  [ctl |-> RetCtl(r.val), stack |-> stack, cache |-> r.cache, op |-> r.op]
  ELSE IF isinstance(val, "list") THEN _decode_list(val[2], stack, ch)
  ELSE IF isinstance(val, "dict")
    THEN LET items == val[2]
             k == items[1][1]
             t == _decode_tagged_verbose(SliceFrom(k[2], 2), items[1][2], stack)
         IN  IF Len(items) = 1 /\ isinstance(k, "str") /\ startswith(k[2], TagPrefix)
               THEN [ctl |-> t.ctl, stack |-> t.stack,
                     cache |-> cache(ch, k[2], FALSE), op |-> CacheOp(k[2], FALSE)]
               ELSE [ctl |-> LoopCtl, stack |-> Push(stack, Frame("items", items)),
                     cache |-> ch, op |-> NoOp]
  ELSE [ctl |-> RetCtl(val), stack |-> stack, cache |-> ch, op |-> NoOp]

\* A variant of the loop test that decodes the name of an object as a value.
LoopTestNameAsValue(stack, ch) ==
  LET fr == Top(stack)
      k == fr.xs[fr.i + 1][1]
      dk == IF isinstance(k, "str") THEN _decode_str(k[2], ch, FALSE)
            ELSE [val |-> k, cache |-> ch, op |-> NoOp]
  IN  CASE fr.f = "elems" ->
             IF fr.i < Len(fr.xs)
               THEN [ctl |-> EvalCtl(fr.xs[fr.i + 1], FALSE), stack |-> stack,
                     cache |-> ch, op |-> NoOp]
               ELSE [ctl |-> RetCtl(PyList(fr.out)), stack |-> Pop(stack),
                     cache |-> ch, op |-> NoOp]
        [] fr.f = "pairs" ->
             IF fr.i < Len(fr.xs) - 1
               THEN [ctl |-> EvalCtl(fr.xs[fr.i + 1], TRUE), stack |-> stack,
                     cache |-> ch, op |-> NoOp]
               ELSE [ctl |-> RetCtl(PyDict(fr.out)), stack |-> Pop(stack),
                     cache |-> ch, op |-> NoOp]
        [] fr.f = "items" ->
             IF fr.i < Len(fr.xs)
               THEN [ctl |-> EvalCtl(fr.xs[fr.i + 1][2], FALSE),
                     stack |-> SetTop(stack, [fr EXCEPT !.key = dk.val]),
                     cache |-> dk.cache, op |-> dk.op]
               ELSE [ctl |-> RetCtl(PyDict(fr.out)), stack |-> Pop(stack),
                     cache |-> ch, op |-> NoOp]

\* The loop test of the innermost loop, and the start of its next iteration.
LoopTest(stack, ch) ==
  LET fr == Top(stack)
      k == fr.xs[fr.i + 1][1]
      dk == IF isinstance(k, "str") THEN _decode_str(k[2], ch, TRUE)
            ELSE [val |-> k, cache |-> ch, op |-> NoOp]
  IN  CASE fr.f = "elems" ->
             IF fr.i < Len(fr.xs)
               THEN [ctl |-> EvalCtl(fr.xs[fr.i + 1], FALSE), stack |-> stack,
                     cache |-> ch, op |-> NoOp]
               ELSE [ctl |-> RetCtl(PyList(fr.out)), stack |-> Pop(stack),
                     cache |-> ch, op |-> NoOp]
        [] fr.f = "pairs" ->
             IF fr.i < Len(fr.xs) - 1
               THEN [ctl |-> EvalCtl(fr.xs[fr.i + 1], TRUE), stack |-> stack,
                     cache |-> ch, op |-> NoOp]
               ELSE [ctl |-> RetCtl(PyDict(fr.out)), stack |-> Pop(stack),
                     cache |-> ch, op |-> NoOp]
        [] fr.f = "items" ->
             IF fr.i < Len(fr.xs)
               THEN IF IsRaise(dk.val)
                      THEN [ctl |-> RetCtl(dk.val), stack |-> stack,
                            cache |-> dk.cache, op |-> dk.op]
                      ELSE [ctl |-> EvalCtl(fr.xs[fr.i + 1][2], FALSE),
                            stack |-> SetTop(stack, [fr EXCEPT !.key = dk.val]),
                            cache |-> dk.cache, op |-> dk.op]
               ELSE [ctl |-> RetCtl(PyDict(fr.out)), stack |-> Pop(stack),
                     cache |-> ch, op |-> NoOp]

\* What the innermost loop does with the value v its _decode call returned.
Resume(stack, v) ==
  LET fr == Top(stack)
      put == dict_set(fr.out, fr.key, v)
  IN  CASE fr.f = "elems" ->
             [ctl |-> LoopCtl,
              stack |-> SetTop(stack, [fr EXCEPT !.out = Append(fr.out, v), !.i = fr.i + 1])]
        [] fr.f = "pairs" /\ fr.phase = "key" ->
             [ctl |-> EvalCtl(fr.xs[fr.i + 2], FALSE),
              stack |-> SetTop(stack, [fr EXCEPT !.key = v, !.phase = "val"])]
        [] fr.f = "pairs" /\ fr.phase = "val" ->
             IF IsRaise(put)
               THEN [ctl |-> RetCtl(put), stack |-> stack]
               ELSE [ctl |-> LoopCtl,
                     stack |-> SetTop(stack, [fr EXCEPT !.out = put, !.i = fr.i + 2,
                                                        !.key = None, !.phase = "key"])]
        [] fr.f = "items" ->
             [ctl |-> LoopCtl,
              stack |-> SetTop(stack, [fr EXCEPT !.out = put, !.i = fr.i + 1, !.key = None])]

\* ------------------------------------------------------------ the machine

\* The threads that call decode_transit.
Calls == {1, 2}

VARIABLES
  heap,    \* the _Cache objects allocated so far
  pc,      \* per call: "idle", "run", "done" (returned) or "raised"
  data,    \* per call: the argument of decode_transit
  cref,    \* per call: the _Cache object of the call (0: none)
  ctl,     \* per call: the control
  stack,   \* per call: the loops in progress, innermost last
  result,  \* per call: the value returned, or the exception raised
  op,      \* the Cache Table call of the last step
  nops,    \* the Cache Table calls made on a table driven directly
  active_connections,  \* ws_controller.active_connections
  active_selection,    \* ws_controller.active_selection
  sock,    \* per websocket: "new" (not connected yet), "open" or "closed"
  hpc,     \* per websocket: the position of its _handler task
  send     \* per send_command call: its position, locals and return value

\* the state of the transit decoder, and of the plugin relay
transit == <<heap, pc, data, cref, ctl, stack, result, op, nops>>
relay == <<active_connections, active_selection, sock, hpc, send>>

vars == <<heap, pc, data, cref, ctl, stack, result, op, nops,
          active_connections, active_selection, sock, hpc, send>>

\* The websockets the plugins open, and the calls of send_command.
Sockets == 1..MaxConns
Senders == 1..MaxSends

\* a send_command coroutine that has not been called
NotCalled == [at |-> "idle", todo |-> {}, sent |-> {}, seen |-> {}, ret |-> None]

\* PenpotWSController.__init__, before any plugin connects
InitRelay ==
  /\ active_connections = {}
  /\ active_selection = << >>
  /\ sock = [w \in Sockets |-> "new"]
  /\ hpc = [w \in Sockets |-> "none"]
  /\ send = [k \in Senders |-> NotCalled]

\* A variant of Alloc in which every call gets the one _Cache object of the
\* process.
AllocShared(h) == IF h = << >> THEN Append(h, _Cache) ELSE h

\* cache = _Cache(): the heap with the new object last
Alloc(h) == Append(h, _Cache)

\* decode_transit(data) up to the call of _decode
Enter(d, h) ==
  LET tree == IF isinstance(d, "str") THEN json_loads(d[2]) ELSE d
  IN  IF tree = Raise("JSONDecodeError")
        THEN [pc |-> "done", result |-> d, heap |-> h, cref |-> 0, ctl |-> LoopCtl]
      ELSE IF IsRaise(tree)
        THEN [pc |-> "raised", result |-> tree, heap |-> h, cref |-> 0, ctl |-> LoopCtl]
        ELSE [pc |-> "run", result |-> None, heap |-> Alloc(h),
              cref |-> Len(Alloc(h)), ctl |-> EvalCtl(tree, FALSE)]

decode_transit(c, d) ==
  /\ pc[c] = "idle"
  /\ LET e == Enter(d, heap)
     IN  /\ pc' = [pc EXCEPT ![c] = e.pc]
         /\ result' = [result EXCEPT ![c] = e.result]
         /\ heap' = e.heap
         /\ cref' = [cref EXCEPT ![c] = e.cref]
         /\ ctl' = [ctl EXCEPT ![c] = e.ctl]
  /\ data' = [data EXCEPT ![c] = d]
  /\ op' = NoOp
  /\ UNCHANGED <<stack, nops, relay>>

\* A call of _decode runs up to its first recursive call.
Eval(c) ==
  /\ pc[c] = "run" /\ ctl[c].op = "eval"
  /\ LET r == _decode(ctl[c].v, ctl[c].as_key, stack[c], heap[cref[c]])
     IN  /\ ctl' = [ctl EXCEPT ![c] = r.ctl]
         /\ stack' = [stack EXCEPT ![c] = r.stack]
         /\ heap' = [heap EXCEPT ![cref[c]] = r.cache]
         /\ op' = r.op
  /\ UNCHANGED <<pc, data, cref, result, nops, relay>>

\* The innermost loop tests its condition and starts an iteration or ends.
Loop(c) ==
  /\ pc[c] = "run" /\ ctl[c].op = "loop"
  /\ LET r == LoopTest(stack[c], heap[cref[c]])
     IN  /\ ctl' = [ctl EXCEPT ![c] = r.ctl]
         /\ stack' = [stack EXCEPT ![c] = r.stack]
         /\ heap' = [heap EXCEPT ![cref[c]] = r.cache]
         /\ op' = r.op
  /\ UNCHANGED <<pc, data, cref, result, nops, relay>>

\* A value returns into the innermost loop.
Return(c) ==
  /\ pc[c] = "run" /\ ctl[c].op = "ret"
  /\ ~IsRaise(ctl[c].v) /\ stack[c] # << >>
  /\ LET r == Resume(stack[c], ctl[c].v)
     IN  /\ ctl' = [ctl EXCEPT ![c] = r.ctl]
         /\ stack' = [stack EXCEPT ![c] = r.stack]
  /\ op' = NoOp
  /\ UNCHANGED <<heap, pc, data, cref, result, nops, relay>>

\* The outermost _decode returns: decode_transit returns its value.
Finish(c) ==
  /\ pc[c] = "run" /\ ctl[c].op = "ret"
  /\ ~IsRaise(ctl[c].v) /\ stack[c] = << >>
  /\ pc' = [pc EXCEPT ![c] = "done"]
  /\ result' = [result EXCEPT ![c] = ctl[c].v]
  /\ op' = NoOp
  /\ UNCHANGED <<heap, data, cref, ctl, stack, nops, relay>>

\* An exception: nothing on the way up catches it, decode_transit raises it.
Propagate(c) ==
  /\ pc[c] = "run" /\ ctl[c].op = "ret"
  /\ IsRaise(ctl[c].v)
  /\ pc' = [pc EXCEPT ![c] = "raised"]
  /\ result' = [result EXCEPT ![c] = ctl[c].v]
  /\ op' = NoOp
  /\ UNCHANGED <<heap, data, cref, ctl, stack, nops, relay>>

Init ==
  /\ heap = << >>
  /\ pc = [c \in Calls |-> "idle"]
  /\ data = [c \in Calls |-> None]
  /\ cref = [c \in Calls |-> 0]
  /\ ctl = [c \in Calls |-> LoopCtl]
  /\ stack = [c \in Calls |-> << >>]
  /\ result = [c \in Calls |-> None]
  /\ op = NoOp
  /\ nops = 0
  /\ InitRelay

\* ----------------------------------------------------------------- inputs

KwA == <<"~", ":", "a", "a", "a", "a">>
KwShort == <<"~", ":", "a", "b">>
Plain == <<"a", "a", "a", "a">>
Ref0 == <<"^", "0">>
Ref1 == <<"^", "1">>
IntLit == <<"~", "i", "4", "2">>
HeadSet == <<"~", "#", "s", "e", "t">>
HeadList == <<"~", "#", "l", "i", "s", "t">>
HeadCmap == <<"~", "#", "c", "m", "a", "p">>
HeadShort == <<"~", "#", "x">>
HeadPoint == <<"~", "#", "p", "o", "i", "n", "t">>
HeadUri == <<"~", "#", "u", "r", "i">>
HeadOrderedSet == TagPrefix \o TagOrderedSet
HeadUnknown == TagPrefix \o <<"u", "n", "k", "n", "o", "w", "n", "-", "t", "a", "g">>
Abc == <<"a", "b", "c">>

\* all sequences over S of length at most n
Seqs(S, n) == UNION {[1..k -> S] : k \in 0..n}

\* The nodes the generated arrays are made of: cacheable and non-cacheable
\* strings, references, a tagged scalar, a tag literal, the other scalars and
\* two small containers.
Leaves ==
  {PyStr(KwA), PyStr(KwShort), PyStr(Plain), PyStr(Ref0), PyStr(Ref1),
   PyStr(IntLit), PyStr(HeadSet), IntOf(1), None, PyBool(TRUE),
   PyList(<<PyStr(KwA)>>), PyDict(<< <<PyStr(Plain), IntOf(1)>> >>)}

\* The nodes of the longer arrays.
ArrayLeaves ==
  {PyStr(KwA), PyStr(Plain), PyStr(Ref0), PyStr(Ref1), PyStr(HeadSet), IntOf(1),
   PyList(<<PyStr(KwA)>>), PyDict(<< <<PyStr(Plain), IntOf(1)>> >>)}

Arrays ==
  {PyList(xs) : xs \in Seqs(ArrayLeaves, MaxLen)} \cup {PyList(<<x>>) : x \in Leaves}

Heads == {HeadSet, HeadList, HeadOrderedSet, HeadCmap, HeadShort, HeadPoint, HeadUri}

\* The nodes of the generated payloads.
TagLeaves == {PyStr(KwA), PyStr(Plain), PyStr(Ref0), PyStr(Ref1), IntOf(1)}

Payloads == TagLeaves \cup {PyList(xs) : xs \in Seqs(TagLeaves, MaxLen)}

\* ["~#tag", payload] and {"~#tag": payload}
Tagged ==
  UNION {{PyList(<<PyStr(h), p>>), PyDict(<< <<PyStr(h), p>> >>)} :
           <<h, p>> \in Heads \X Payloads}

\* The nodes of the generated key/value payloads.
MapLeaves == {PyStr(KwA), PyStr(Plain), PyStr(Ref0), PyList(<<PyStr(KwA)>>)}

MapKeys == {PyStr(KwA), PyStr(Plain), PyStr(Ref0), IntOf(1)}

MapValues == {IntOf(1), PyStr(Ref0)}

\* flat key/value arrays, and those of two pairs
MapFlat ==
  Seqs(MapLeaves, MaxLen + 1)
    \cup {<<k1, v1, k2, v2>> : <<k1, k2>> \in MapKeys \X MapKeys,
                              <<v1, v2>> \in MapValues \X MapValues}

\* ["^ ", k, v, ...], ["~#cmap", [k, v, ...]] and {"~#cmap": [k, v, ...]}
Maps ==
  UNION {{PyList(<<PyStr(MapSentinel)>> \o f),
          PyList(<<PyStr(HeadCmap), PyList(f)>>),
          PyDict(<< <<PyStr(HeadCmap), PyList(f)>> >>)} : f \in MapFlat}

ObjectKeys == {Plain, Ref0, HeadSet}

ObjectValues == {IntOf(1), PyStr(KwA), PyStr(Ref0), PyList(<<PyStr(Plain)>>)}

\* objects, as a JSON parser builds them: no name twice
Objects ==
  {PyDict(ps) : ps \in {q \in Seqs({<<PyStr(k), v>> : <<k, v>> \in ObjectKeys \X ObjectValues}, MaxLen) :
                          \A i, j \in 1..Len(q) : i # j => q[i][1] # q[j][1]}}

\* Containers that follow one another in an array, the later ones headed by
\* references to the strings of the earlier ones.
NestLeaves ==
  {PyList(<<PyStr(HeadSet), PyList(<<PyStr(KwA)>>)>>),
   PyList(<<PyStr(Ref0), PyList(<<PyStr(Ref1), IntOf(1)>>)>>),
   PyList(<<PyStr(Ref1), IntOf(1)>>),
   PyList(<<PyStr(HeadShort), PyStr(KwA)>>),
   PyList(<<PyStr(HeadSet)>>),
   PyList(<<PyStr(HeadCmap), PyList(<<PyStr(KwA), PyStr(Ref0)>>)>>),
   PyStr(Ref0)}

Nested == {PyList(xs) : xs \in Seqs(NestLeaves, MaxLen)}

\* the text of an unclosed array that holds an integer of one digit more
\* than int() converts
LongIntText == [i \in 1..(IntMaxStrDigits + 2) |-> IF i = 1 THEN "[" ELSE "1"]

\* Raw text, as the HTTP layer hands it over.
Texts ==
  {PyStr(<<"~", ":", "f", "o", "o">>),
   PyStr(<<"\"", "~", ":", "f", "o", "o", "\"">>),
   PyStr(<<"^", "9">>),
   PyStr(<<"[", "\"", "~", ":", "a", "a", "a", "a", "\"", ",", "\"", "^", "0", "\"", "]">>),
   PyStr(<<"{", "\"", "a", "a", "a", "a", "\"", ":", "1", "}">>),
   PyStr(<<"[", "1">>),
   PyStr(<<"[", "1", ",", "]">>),
   PyStr(<<"{", "\"", "a", "\"", ":">>),
   PyStr(<<"t", "r", "u">>),
   PyStr(LongIntText),
   PyStr(<<"1">>),
   PyStr(<< >>)}

\* Tagged scalars, each alone in an array: instants in and out of the range
\* of the platform, integers, a float, the escapes, an unknown tag.
Scalars ==
  {PyList(<<PyStr(s)>>) :
     s \in {<<"~", "m", "0">>,
            <<"~", "m", "1", "7", "0", "0", "0", "0", "0", "0", "0", "0", "1", "2", "3">>,
            <<"~", "m", "-", "1">>,
            <<"~", "m", "9", "9", "9", "9", "9", "9", "9", "9", "9", "9", "9", "9", "9", "9", "9", "9", "9">>,
            <<"~", "m", "9", "9", "9", "9", "9", "9", "9", "9", "9", "9", "9", "9", "9", "9", "9", "9", "9",
              "9", "9", "9", "9", "9">>,
            <<"~", "m", "x">>,
            <<"~", "i", "-", "7">>, <<"~", "i", "x">>, <<"~", "n", "1", "2">>,
            <<"~", "d", "1", ".", "5">>, <<"~", "d", "x">>,
            <<"~", "?", "t">>, <<"~", "?", "f">>, <<"~", "u", "a", "b">>,
            <<"~", "t", "a", "b">>, <<"~", "~", "a">>, <<"~", "^", "a">>,
            <<"~", "z", "a">>, <<"~">>}}

\* Strings shorter than 4 characters, repeated, among a string that is
\* registered and a reference: in arrays, in maps and as names of objects.
ShortLeaves == {PyStr(KwShort), PyStr(Abc), PyStr(KwA), PyStr(Ref0), PyStr(Ref1)}

Shorts ==
  UNION {{PyList(f), PyList(<<PyStr(MapSentinel)>> \o f)} : f \in Seqs(ShortLeaves, MaxLen + 1)}
    \cup {PyDict(<< <<PyStr(KwA), PyStr(KwShort)>>, <<PyStr(k), v>>, <<PyStr(Ref0), v>> >>) :
             <<k, v>> \in {KwShort, Abc} \X ShortLeaves}

\* The decodings the specification gives as examples.
Examples ==
  {PyList(<<PyStr(MapSentinel), PyStr(<<"~", ":", "a">>), IntOf(1), PyStr(<<"~", ":", "b">>), IntOf(2)>>),
   PyDict(<< <<PyStr(HeadCmap),
               PyList(<<PyStr(<<"~", ":", "a">>), IntOf(1), PyStr(<<"~", ":", "b">>), IntOf(2)>>)>> >>),
   PyList(<<PyStr(HeadUnknown), PyDict(<< <<PyStr(<<"x">>), IntOf(1)>> >>)>>),
   PyStr(<<"~", "?", "t">>), PyStr(<<"~", "?", "f">>), PyStr(IntLit),
   PyStr(<<"~", "d", "3", ".", "1", "4">>),
   PyStr(<<"\"", "~", "?", "t", "\"">>), PyStr(<<"\"", "~", "i", "4", "2", "\"">>),
   PyStr(<<"\"", "[", "1", "]", "\"">>), PyStr(<<"[", "1", "]">>),
   PyStr(<<" ", "[", "\"", "~", ":", "a", "a", "a", "a", "\"", "]">>),
   PyDict(<< <<PyStr(KwA), PyStr(HeadSet)>>, <<PyStr(Ref1), PyStr(Ref0)>> >>),
   PyList(<<PyStr(MapSentinel), PyStr(<<"^", "a", "a", "a">>), PyStr(KwA),
            PyStr(<<"^", "a", "a", "a">>), PyStr(Ref0)>>),
   PyList(<<PyList(<<PyStr(MapSentinel), PyStr(KwA), IntOf(1), PyStr(HeadSet)>>),
            PyStr(HeadList), PyStr(Ref1)>>)}

Inputs ==
  Leaves \cup Arrays \cup Tagged \cup Maps \cup Objects \cup Nested \cup Scalars \cup Texts
    \cup Shorts \cup Examples

\* ----------------------------------------------------------- specification

\* One call of decode_transit, on every input.
Next ==
  \/ \E d \in Inputs : decode_transit(1, d)
  \/ Eval(1)
  \/ Loop(1)
  \/ Return(1)
  \/ Finish(1)
  \/ Propagate(1)

Spec == Init /\ [][Next]_vars

\* ------------------------------------------------------------ properties

\* the _Cache object of call c
CacheOf(c) == heap[cref[c]]

\* C1: decode_transit returns a value on every input and never propagates an
\* exception: no call ever ends by raising.
C1_NeverRaises == \A c \in Calls : pc[c] # "raised"

\* ---------------------------------------------------------- one call alone

\* A call of decode_transit with nothing else running: its control, stack,
\* cache and result, stepped by the operators the actions use.
AloneState(e) ==
  [pc |-> e.pc, ctl |-> e.ctl, stack |-> << >>, result |-> e.result,
   cache |-> IF e.cref = 0 THEN _Cache ELSE e.heap[e.cref]]

Stepped(st, r) == [st EXCEPT !.ctl = r.ctl, !.stack = r.stack, !.cache = r.cache]

Resumed(st, r) == [st EXCEPT !.ctl = r.ctl, !.stack = r.stack]

StepAlone(st) ==
  IF st.ctl.op = "eval"
    THEN Stepped(st, _decode(st.ctl.v, st.ctl.as_key, st.stack, st.cache))
  ELSE IF st.ctl.op = "loop" THEN Stepped(st, LoopTest(st.stack, st.cache))
  ELSE IF IsRaise(st.ctl.v) THEN [st EXCEPT !.pc = "raised", !.result = st.ctl.v]
  ELSE IF st.stack = << >> THEN [st EXCEPT !.pc = "done", !.result = st.ctl.v]
  ELSE Resumed(st, Resume(st.stack, st.ctl.v))

RECURSIVE RunFrom(_)
RunFrom(st) == IF st.pc # "run" THEN st ELSE RunFrom(StepAlone(st))

\* decode_transit(d) from its call to its return
RunAlone(d) == RunFrom(AloneState(Enter(d, << >>)))

\* ------------------------------------------------------- interleaved calls

\* The inputs of the interleaved calls: strings that register, references
\* that hit and references that dangle in the same positions, a map, an
\* object, a key that cannot be hashed, and text.
ConcInputs ==
  {PyList(<<PyStr(KwA), PyStr(Ref0)>>),
   PyList(<<PyStr(Ref0), PyStr(KwA)>>),
   PyList(<<PyStr(HeadSet), PyList(<<PyStr(KwA), PyStr(Ref1)>>)>>),
   PyList(<<PyStr(MapSentinel), PyStr(Plain), IntOf(1), PyStr(Ref0), IntOf(1)>>),
   PyList(<<PyStr(MapSentinel), PyList(<<PyStr(KwA)>>), IntOf(1)>>),
   PyDict(<< <<PyStr(Plain), PyStr(Ref0)>> >>),
   PyStr(<<"[", "\"", "~", ":", "a", "a", "a", "a", "\"", ",", "\"", "^", "0", "\"", "]">>),
   PyStr(<<"[", "1">>)}

\* Two threads, each calling decode_transit once, their steps interleaved in
\* every order.
NextConc ==
  \E c \in Calls :
    \/ \E d \in ConcInputs : decode_transit(c, d)
    \/ Eval(c)
    \/ Loop(c)
    \/ Return(c)
    \/ Finish(c)
    \/ Propagate(c)

SpecConc == Init /\ [][NextConc]_vars

\* C2: interleaved calls do not interfere: no two calls hold the same cache
\* object, and a call that has ended has the result, the outcome and the
\* cache slots of the same call run alone.
C2_NoInterference ==
  \A c \in Calls :
    /\ \A b \in Calls \ {c} : cref[c] # 0 => cref[b] # cref[c]
    /\ pc[c] \in {"done", "raised"} =>
         /\ pc[c] = RunAlone(data[c]).pc
         /\ result[c] = RunAlone(data[c]).result
         /\ cref[c] # 0 => CacheOf(c) = RunAlone(data[c]).cache

\* Both calls have ended, one with a reference resolved to the string it
\* registered, the other with the same reference left dangling.
C2_Witness ==
  /\ pc[1] = "done" /\ pc[2] = "done"
  /\ data[1] = PyList(<<PyStr(KwA), PyStr(Ref0)>>)
  /\ data[2] = PyList(<<PyStr(Ref0), PyStr(KwA)>>)
  /\ result[1] = PyList(<<PyStr(SliceFrom(KwA, 2)), PyStr(SliceFrom(KwA, 2))>>)
  /\ result[2] = PyList(<<PyStr(Ref0), PyStr(SliceFrom(KwA, 2))>>)

\* the reference codes of the indices below n
Codes(n) == {_ref_for(i) : i \in 0..(n - 1)}

\* C3: in every state of a decode call the codes assigned are those of the
\* indices 0..n-1, n being the counter; a step that registers a string
\* gives it the index the counter had and advances the counter by one, and
\* every other step leaves the counter unchanged.
C3_IndicesInOrder ==
  /\ [](\A c \in Calls :
          cref[c] # 0 => DOMAIN CacheOf(c).map = Codes(CacheOf(c).idx))
  /\ [][\A c \in Calls :
          cref[c] # 0 /\ cref'[c] = cref[c] =>
            IF heap'[cref[c]].map # heap[cref[c]].map
              THEN /\ op'.name = "cache"
                   /\ heap'[cref[c]].map =
                        MapSet(heap[cref[c]].map, _ref_for(heap[cref[c]].idx), op'.s)
                   /\ heap'[cref[c]].idx = heap[cref[c]].idx + 1
              ELSE heap'[cref[c]].idx = heap[cref[c]].idx]_vars

\* Two strings are registered and the step just taken looked a reference up.
C3_Witness ==
  \E c \in Calls :
    /\ cref[c] # 0 /\ pc[c] = "run"
    /\ CacheOf(c).idx = 2
    /\ DOMAIN CacheOf(c).map = {Ref0, Ref1}
    /\ op.name = "resolve"

\* ---------------------------------------------------- the Cache Table alone

\* The i-th string of a table filled in advance: a keyword of four digits.
PreloadStr(i) == <<"~", ":">> \o Pad(DigitsOf(i), 4)

\* The table c after cache is called on the keywords lo .. hi - 1 in turn.
RECURSIVE PreloadRange(_, _, _)
PreloadRange(c, lo, hi) ==
  IF hi <= lo THEN c
  ELSE IF hi = lo + 1 THEN cache(c, PreloadStr(lo), FALSE)
  ELSE LET half == PreloadRange(c, lo, (lo + hi) \div 2)
       IN  IF half.idx >= 0 THEN PreloadRange(half, (lo + hi) \div 2, hi) ELSE half

\* The table after n registrations.
Preload(n) == PreloadRange(_Cache, 0, n)

\* The fill of the table when the operations start: empty, one string, the
\* last single-character code free or taken, and so full that the operations
\* end on the last two-character code.
PreloadSizes ==
  {0, 1, _CACHE_BASE - 1, _CACHE_BASE, _CACHE_BASE + 1,
   _CACHE_BASE * _CACHE_BASE - MaxOps}

\* The strings handed to cache: of every length around 4, with each of the
\* three tags of line 61, with another tag and with none.
CacheStrs ==
  {<< >>, <<"~", ":", "a">>, <<"~", ":", "a", "b">>, <<"~", "$", "a", "b">>,
   <<"~", "#", "a", "b">>, <<"~", "i", "a", "b">>, Plain, <<"a", "b", "c">>}

\* The codes handed to resolve: of the first index, of index 44, of index
\* 44 * 44 - 1, and the map sentinel.
ResolveRefs ==
  {Ref0, _ref_for(_CACHE_BASE), _ref_for(_CACHE_BASE * _CACHE_BASE - 1), MapSentinel}

InitCache ==
  /\ \E n \in PreloadSizes : heap = <<Preload(n)>>
  /\ pc = [c \in Calls |-> "idle"]
  /\ data = [c \in Calls |-> None]
  /\ cref = [c \in Calls |-> IF c = 1 THEN 1 ELSE 0]
  /\ ctl = [c \in Calls |-> LoopCtl]
  /\ stack = [c \in Calls |-> << >>]
  /\ result = [c \in Calls |-> None]
  /\ op = NoOp
  /\ nops = 0
  /\ InitRelay

\* cache.cache(s, as_key)
CacheCall(s, as_key) ==
  /\ nops < MaxOps
  /\ heap' = [heap EXCEPT ![1] = cache(heap[1], s, as_key)]
  /\ op' = CacheOp(s, as_key)
  /\ nops' = nops + 1
  /\ UNCHANGED <<pc, data, cref, ctl, stack, result, relay>>

\* cache.resolve(ref)
ResolveCall(ref) ==
  /\ nops < MaxOps
  /\ op' = ResolveOp(ref, resolve(heap[1], ref))
  /\ nops' = nops + 1
  /\ UNCHANGED <<heap, pc, data, cref, ctl, stack, result, relay>>

NextCache ==
  \/ \E s \in CacheStrs, as_key \in BOOLEAN : CacheCall(s, as_key)
  \/ \E ref \in ResolveRefs : ResolveCall(ref)

SpecCache == InitCache /\ [][NextCache]_vars

\* C4: a slot is never reused or changed.  The table holds as many codes as
\* indices were assigned (distinct indices got distinct codes), none of them
\* the map sentinel; a step keeps every code mapped to the literal it had;
\* and resolve returns that literal.
C4_SlotsFrozen ==
  /\ [](/\ Cardinality(DOMAIN heap[1].map) = heap[1].idx
        /\ MapSentinel \notin DOMAIN heap[1].map)
  /\ [][/\ \A code \in DOMAIN heap[1].map :
             code \in DOMAIN heap'[1].map /\ heap'[1].map[code] = heap[1].map[code]
        /\ (op'.name = "resolve" /\ nops' = nops + 1 /\ op'.s \in DOMAIN heap[1].map)
             => op'.ret = heap[1].map[op'.s]]_vars

\* Every index below 44 * 44 is assigned, and resolve has just returned the
\* literal of index 44, registered before the two-character codes began.
C4_Witness ==
  /\ heap[1].idx >= _CACHE_BASE * _CACHE_BASE - 1
  /\ op.name = "resolve"
  /\ op.s = _ref_for(_CACHE_BASE)
  /\ op.ret = PreloadStr(_CACHE_BASE)

\* C5: cache(s, as_key) stores s under the code of the counter and advances
\* the counter if s has 4 characters or more and is a key or starts with ~:,
\* ~$ or ~#; otherwise it leaves the table and the counter as they were.
C5_CacheabilityRule ==
  [][(op'.name = "cache" /\ nops' = nops + 1) =>
       IF /\ Len(op'.s) >= 4
          /\ \/ op'.as_key
             \/ op'.s[1] = "~" /\ op'.s[2] \in {":", "$", "#"}
         THEN heap'[1] = [map |-> MapSet(heap[1].map, _ref_for(heap[1].idx), op'.s),
                          idx |-> heap[1].idx + 1]
         ELSE heap'[1] = heap[1]]_vars

\* A string without a tag has been registered as a key, under the first
\* two-character code.
C5_Witness ==
  /\ op = CacheOp(Plain, TRUE)
  /\ heap[1].idx = _CACHE_BASE + 1
  /\ resolve(heap[1], _ref_for(_CACHE_BASE)) = Plain

\* ------------------------------------------------------- _ref_for alone

\* the indices that have a code of one or two characters
RefRange == 0..(_CACHE_BASE * _CACHE_BASE - 1)

\* cache._ref_for(idx)
RefForCall(idx) ==
  /\ op' = RefForOp(idx, _ref_for(idx))
  /\ UNCHANGED <<heap, pc, data, cref, ctl, stack, result, nops, relay>>

NextRef == \E idx \in RefRange : RefForCall(idx)

SpecRef == Init /\ [][NextRef]_vars

\* ord(ch), the inverse of chr
ord(ch) == CHOOSE n \in 32..95 : chr(n) = ch

\* C6: the code of index i is "^" and the character 48 + i when i < 44, and
\* "^" and the characters 48 + i div 44, 48 + i mod 44 when 44 <= i < 44 * 44;
\* index 0 gives "^0", index 43 "^[" and index 44 "^10".
C6_ReferenceCodes ==
  op.name = "_ref_for" =>
    /\ op.ret[1] = "^"
    /\ IF op.n < 44
         THEN Len(op.ret) = 2 /\ ord(op.ret[2]) = 48 + op.n
         ELSE /\ Len(op.ret) = 3
              /\ ord(op.ret[2]) = 48 + (op.n \div 44)
              /\ ord(op.ret[3]) = 48 + (op.n % 44)
    /\ op.n = 0 => op.ret = <<"^", "0">>
    /\ op.n = 43 => op.ret = <<"^", "[">>
    /\ op.n = 44 => op.ret = <<"^", "1", "0">>

\* _ref_for has returned the first two-character code.
C6_Witness == op = RefForOp(44, <<"^", "1", "0">>)

\* ------------------------------------------------- properties of a decode

Keyword == PyStr(SliceFrom(KwA, 2))

SetOfTwo(second) == PyList(<<PyStr(HeadSet), PyList(<<PyStr(KwA), second>>)>>)

\* C7 as the specification words it: the set of a keyword written twice, and
\* the set whose second element is the reference "^0", both decode to the
\* keyword twice.
C7_SecondIsRef0 ==
  \A c \in Calls :
    (pc[c] = "done" /\ data[c] \in {SetOfTwo(PyStr(KwA)), SetOfTwo(PyStr(Ref0))})
      => result[c] = PyList(<<Keyword, Keyword>>)

\* C7: ["~#set", ["~:aaaa", "~:aaaa"]] decodes to ["aaaa", "aaaa"]; the
\* header "~#set" takes index 0, so the second occurrence arrives as "^1",
\* which resolves to "aaaa" and gives ["aaaa", "aaaa"] again, and "^0"
\* resolves to the header.
C7_SecondIsRef1 ==
  \A c \in Calls :
    pc[c] = "done" =>
      /\ data[c] = SetOfTwo(PyStr(KwA)) => result[c] = PyList(<<Keyword, Keyword>>)
      /\ data[c] = SetOfTwo(PyStr(Ref1)) => result[c] = PyList(<<Keyword, Keyword>>)
      /\ data[c] = SetOfTwo(PyStr(Ref0)) => result[c] = PyList(<<Keyword, PyStr(HeadSet)>>)

\* The set with the reference "^1" has been decoded.
C7_Witness ==
  /\ pc[1] = "done"
  /\ data[1] = SetOfTwo(PyStr(Ref1))
  /\ result[1] = PyList(<<Keyword, Keyword>>)

\* the string node s is about to be decoded by call c
AtString(c) ==
  /\ pc[c] = "run" /\ ctl[c].op = "eval"
  /\ isinstance(ctl[c].v, "str")

\* the name of an object is about to be decoded by call c
AtName(c) ==
  /\ pc[c] = "run" /\ ctl[c].op = "loop"
  /\ stack[c] # << >>
  /\ Top(stack[c]).f = "items"
  /\ Top(stack[c]).i < Len(Top(stack[c]).xs)
  /\ isinstance(Top(stack[c]).xs[Top(stack[c]).i + 1][1], "str")

NameAt(c) == Top(stack[c]).xs[Top(stack[c]).i + 1][1][2]

\* C8: a string of reference shape whose code the table holds decodes to
\* what _parse_tagged gives for the stored literal, and the table and the
\* counter stay as they were.
C8_ReferenceHit ==
  [][\A c \in Calls :
       /\ (AtString(c) /\ is_cache_ref(ctl[c].v[2])
             /\ ctl[c].v[2] \in DOMAIN CacheOf(c).map /\ ctl'[c] # ctl[c])
            => /\ ctl'[c] = RetCtl(_parse_tagged(CacheOf(c).map[ctl[c].v[2]]))
               /\ CacheOf(c).map[ctl[c].v[2]] = KwA => ctl'[c].v = Keyword
               /\ heap' = heap
       /\ (AtName(c) /\ is_cache_ref(NameAt(c))
             /\ NameAt(c) \in DOMAIN CacheOf(c).map /\ ctl'[c] # ctl[c])
            => /\ Top(stack'[c]).key = _parse_tagged(CacheOf(c).map[NameAt(c)])
               /\ heap' = heap]_vars

\* A reference to the stored "~:aaaa" has just been decoded to "aaaa".
C8_Witness ==
  /\ pc[1] = "run"
  /\ op = ResolveOp(Ref0, KwA)
  /\ ctl[1] = RetCtl(Keyword)
  /\ CacheOf(1).idx = 1

\* an array that is neither a map nor a tagged value
Regular(d) ==
  /\ isinstance(d, "list")
  /\ d[2] # << >>
  /\ d[2][1] # PyStr(MapSentinel)
  /\ ~(isinstance(d[2][1], "str") /\ startswith(d[2][1][2], TagPrefix))

\* C9: a reference whose code the table does not hold decodes to itself, the
\* table stays as it was and the call goes on; and the array around it is
\* decoded, but for that element, as the array with null in its place.
C9_DanglingReference ==
  /\ [][\A c \in Calls :
          /\ (AtString(c) /\ is_cache_ref(ctl[c].v[2])
                /\ ctl[c].v[2] \notin DOMAIN CacheOf(c).map /\ ctl'[c] # ctl[c])
               => /\ ctl'[c] = RetCtl(ctl[c].v)
                  /\ heap' = heap
                  /\ pc'[c] = "run"
          /\ (AtName(c) /\ is_cache_ref(NameAt(c))
                /\ NameAt(c) \notin DOMAIN CacheOf(c).map /\ ctl'[c] # ctl[c])
               => /\ Top(stack'[c]).key = PyStr(NameAt(c))
                  /\ heap' = heap
                  /\ pc'[c] = "run"]_vars
  /\ [](\A c \in Calls :
          (pc[c] = "done" /\ Regular(data[c])) =>
            \A i \in 1..Len(data[c][2]) :
              (/\ isinstance(data[c][2][i], "str")
               /\ is_cache_ref(data[c][2][i][2])
               /\ result[c][2][i] = data[c][2][i])
                => result[c][2] =
                     [RunAlone(PyList([data[c][2] EXCEPT ![i] = None])).result[2]
                        EXCEPT ![i] = data[c][2][i]])

\* An array of a dangling reference and a keyword has been decoded.
C9_Witness ==
  /\ pc[1] = "done"
  /\ data[1] = PyList(<<PyStr(Ref0), PyStr(KwA)>>)
  /\ result[1] = PyList(<<PyStr(Ref0), Keyword>>)
  /\ CacheOf(1).idx = 1

\* call c is about to decode an array headed by a literal tag header
AtHeader(c) ==
  /\ pc[c] = "run" /\ ctl[c].op = "eval"
  /\ isinstance(ctl[c].v, "list")
  /\ ctl[c].v[2] # << >>
  /\ isinstance(ctl[c].v[2][1], "str")
  /\ startswith(ctl[c].v[2][1][2], TagPrefix)

HeaderAt(c) == ctl[c].v[2][1][2]

\* C10 as the specification words it: a literal header at the head of an
\* array is registered whatever its length.
C10_AnyLength ==
  [][\A c \in Calls :
       (AtHeader(c) /\ ctl'[c] # ctl[c]) =>
         heap'[cref[c]] =
           [map |-> MapSet(CacheOf(c).map, _ref_for(CacheOf(c).idx), HeaderAt(c)),
            idx |-> CacheOf(c).idx + 1]]_vars

\* C10: a literal header at the head of an array is registered if it has 4
\* characters or more, and not registered if it is shorter.
C10_FourOrMore ==
  [][\A c \in Calls :
       (AtHeader(c) /\ ctl'[c] # ctl[c]) =>
         heap'[cref[c]] =
           IF Len(HeaderAt(c)) >= 4
             THEN [map |-> MapSet(CacheOf(c).map, _ref_for(CacheOf(c).idx), HeaderAt(c)),
                   idx |-> CacheOf(c).idx + 1]
             ELSE CacheOf(c)]_vars

\* The array headed by "~#x" has passed its header, and nothing is
\* registered.
C10_Witness ==
  /\ pc[1] = "run"
  /\ data[1] = PyList(<<PyStr(HeadShort), PyStr(KwA)>>)
  /\ op = CacheOp(HeadShort, FALSE)
  /\ CacheOf(1) = _Cache

\* _decode(v, cache, as_key) from its call to its return, on the cache ch
DecodeWith(v, as_key, ch) ==
  RunFrom([pc |-> "run", ctl |-> EvalCtl(v, as_key), stack |-> << >>,
           result |-> None, cache |-> ch])

IsCaretMap(d) ==
  /\ isinstance(d, "list")
  /\ d[2] # << >>
  /\ d[2][1] = PyStr(MapSentinel)

IsCompactCmap(d) ==
  /\ isinstance(d, "list")
  /\ Len(d[2]) = 2
  /\ d[2][1] = PyStr(HeadCmap)
  /\ isinstance(d[2][2], "list")

IsVerboseCmap(d) ==
  /\ isinstance(d, "dict")
  /\ Len(d[2]) = 1
  /\ d[2][1][1] = PyStr(HeadCmap)
  /\ isinstance(d[2][1][2], "list")

IsMap(d) == IsCaretMap(d) \/ IsCompactCmap(d) \/ IsVerboseCmap(d)

FlatOf(d) ==
  IF IsCaretMap(d) THEN Tail(d[2])
  ELSE IF IsCompactCmap(d) THEN d[2][2][2]
  ELSE d[2][1][2][2]

\* the table when the first key of a map at the root is decoded: a cmap
\* header holds index 0, the sentinel holds none
TableAtFlat(d) ==
  IF IsCaretMap(d) THEN _Cache ELSE [map |-> (Ref0 :> HeadCmap), idx |-> 1]

\* The pairs <<decode(k), decode(v)>> of the flat array f from index i on,
\* each key decoded as a key before its value, each value as a value, the
\* table passed from one to the next.
RECURSIVE PairsOf(_, _, _, _)
PairsOf(f, i, ch, out) ==
  IF i >= Len(f) - 1 THEN [out |-> out, cache |-> ch]
  ELSE LET k == DecodeWith(f[i + 1], TRUE, ch)
           v == DecodeWith(f[i + 2], FALSE, k.cache)
       IN  PairsOf(f, i + 2, v.cache, Append(out, <<k.result, v.result>>))

DistinctKeys(ps) == \A i, j \in 1..Len(ps) : i # j => ~PyEq(ps[i][1], ps[j][1])

\* C12: a map written with the sentinel or as a cmap payload, compact or
\* verbose, whose keys decode to distinct values, decodes to the entries
\* decode(k) -> decode(v) in pair order, each key decoded as a key before
\* its value; the two examples give {"a": 1, "b": 2}.
C12_MapInPairOrder ==
  \A c \in Calls :
    (pc[c] = "done" /\ IsMap(data[c])
       /\ DistinctKeys(PairsOf(FlatOf(data[c]), 0, TableAtFlat(data[c]), << >>).out))
      => /\ result[c] =
              PyDict(PairsOf(FlatOf(data[c]), 0, TableAtFlat(data[c]), << >>).out)
         /\ CacheOf(c) = PairsOf(FlatOf(data[c]), 0, TableAtFlat(data[c]), << >>).cache
         /\ FlatOf(data[c]) = <<PyStr(<<"~", ":", "a">>), IntOf(1),
                                PyStr(<<"~", ":", "b">>), IntOf(2)>>
              => result[c] = PyDict(<< <<PyStr(<<"a">>), IntOf(1)>>,
                                       <<PyStr(<<"b">>), IntOf(2)>> >>)

\* A map of two pairs has been decoded: its first key was registered as a
\* key, and both values, references to it, resolved to it.
C12_Witness ==
  /\ pc[1] = "done"
  /\ data[1] = PyList(<<PyStr(MapSentinel), PyStr(Plain), PyStr(Ref0), IntOf(1), PyStr(Ref0)>>)
  /\ result[1] = PyDict(<< <<PyStr(Plain), PyStr(Plain)>>, <<IntOf(1), PyStr(Plain)>> >>)

\* C13: map decoding never drops a pair: a decoded map of n key/value pairs
\* has n entries, also when two keys decode to equal values.
C13_NoDedup ==
  \A c \in Calls :
    (pc[c] = "done" /\ IsMap(data[c]))
      => Len(result[c][2]) = Len(FlatOf(data[c])) \div 2

\* C14: a map of one pair whose key node is an array or an object decodes
\* to the map from the decoded key to the decoded value.
C14_CompoundKey ==
  \A c \in Calls :
    (/\ pc[c] \in {"done", "raised"}
     /\ IsMap(data[c])
     /\ Len(FlatOf(data[c])) = 2
     /\ FlatOf(data[c])[1][1] \in {"list", "dict"})
      => /\ pc[c] = "done"
         /\ result[c] = PyDict(PairsOf(FlatOf(data[c]), 0, TableAtFlat(data[c]), << >>).out)

\* ------------------------------------------------------- tagged sequences

SeqHeads == {HeadSet, HeadList, HeadOrderedSet}

\* ["~#tag", payload] and {"~#tag": payload} with tag set, list or
\* ordered-set, and the payload of either
IsCompactSeq(d) ==
  /\ isinstance(d, "list")
  /\ Len(d[2]) = 2
  /\ d[2][1] \in {PyStr(h) : h \in SeqHeads}

IsVerboseSeq(d) ==
  /\ isinstance(d, "dict")
  /\ Len(d[2]) = 1
  /\ d[2][1][1] \in {PyStr(h) : h \in SeqHeads}

IsSeq(d) == IsCompactSeq(d) \/ IsVerboseSeq(d)

HeadOf(d) == IF isinstance(d, "list") THEN d[2][1][2] ELSE d[2][1][1][2]

PayloadOf(d) == IF isinstance(d, "list") THEN d[2][2] ELSE d[2][1][2]

\* the elements on the wire: those of an array payload, or the one scalar
WireElems(d) ==
  IF PayloadOf(d)[1] = "list" THEN PayloadOf(d)[2] ELSE <<PayloadOf(d)>>

\* the table when the payload of a tagged container at the root is decoded
TableAtPayload(d) ==
  IF Len(HeadOf(d)) >= 4 THEN [map |-> (Ref0 :> HeadOf(d)), idx |-> 1] ELSE _Cache

\* The decoded elements of xs from index i on, each decoded as a value, the
\* table passed from one to the next.
RECURSIVE ElemsOf(_, _, _, _)
ElemsOf(xs, i, ch, out) ==
  IF i >= Len(xs) THEN [out |-> out, cache |-> ch]
  ELSE ElemsOf(xs, i + 1, DecodeWith(xs[i + 1], FALSE, ch).cache,
               Append(out, DecodeWith(xs[i + 1], FALSE, ch).result))

\* C15: for the tags set, list and ordered-set, compact or verbose, the
\* result is the list of the decoded elements of the payload in wire order,
\* one per element and none dropped or moved, a scalar payload counting as
\* one element.
C15_SequenceInWireOrder ==
  \A c \in Calls :
    (pc[c] = "done" /\ IsSeq(data[c]))
      => /\ result[c] = PyList(ElemsOf(WireElems(data[c]), 0, TableAtPayload(data[c]), << >>).out)
         /\ Len(result[c][2]) = Len(WireElems(data[c]))
         /\ ~isinstance(PayloadOf(data[c]), "list") => Len(result[c][2]) = 1
         /\ CacheOf(c) = ElemsOf(WireElems(data[c]), 0, TableAtPayload(data[c]), << >>).cache

\* A set of the same keyword twice has been decoded to a list of two equal
\* elements.
C15_Witness ==
  /\ pc[1] = "done"
  /\ data[1] = PyList(<<PyStr(HeadSet), PyList(<<PyStr(KwA), PyStr(KwA)>>)>>)
  /\ result[1] = PyList(<<Keyword, Keyword>>)

\* ---------------------------------------------------- compact and verbose

\* ["~#tag", payload] and {"~#tag": payload} with a tag other than uri, and
\* each written the other way
IsCompactTagged(v) ==
  /\ isinstance(v, "list")
  /\ Len(v[2]) = 2
  /\ isinstance(v[2][1], "str")
  /\ startswith(v[2][1][2], TagPrefix)
  /\ v[2][1][2] # HeadUri

IsVerboseTagged(v) ==
  /\ isinstance(v, "dict")
  /\ Len(v[2]) = 1
  /\ isinstance(v[2][1][1], "str")
  /\ startswith(v[2][1][1][2], TagPrefix)
  /\ v[2][1][1][2] # HeadUri

VerboseOf(v) == PyDict(<< <<v[2][1], v[2][2]>> >>)

CompactOf(v) == PyList(<<v[2][1][1], v[2][1][2]>>)

\* the node call c is about to decode
AtNode(c) == pc[c] = "run" /\ ctl[c].op = "eval"

\* C16: a tagged container with a tag other than uri decodes the same in
\* its compact and in its verbose form: from the table a call has reached,
\* either form ends the same way, with the same result and the same table,
\* and a finished call on one form has the result and the table of a call
\* on the other.
C16_CompactAsVerbose ==
  \A c \in Calls :
    /\ (AtNode(c) /\ IsCompactTagged(ctl[c].v))
         => DecodeWith(ctl[c].v, ctl[c].as_key, CacheOf(c))
              = DecodeWith(VerboseOf(ctl[c].v), ctl[c].as_key, CacheOf(c))
    /\ (AtNode(c) /\ IsVerboseTagged(ctl[c].v))
         => DecodeWith(ctl[c].v, ctl[c].as_key, CacheOf(c))
              = DecodeWith(CompactOf(ctl[c].v), ctl[c].as_key, CacheOf(c))
    /\ (pc[c] \in {"done", "raised"} /\ IsCompactTagged(data[c]))
         => /\ RunAlone(VerboseOf(data[c])).pc = pc[c]
            /\ RunAlone(VerboseOf(data[c])).result = result[c]
            /\ RunAlone(VerboseOf(data[c])).cache = CacheOf(c)
    /\ (pc[c] \in {"done", "raised"} /\ IsVerboseTagged(data[c]))
         => /\ RunAlone(CompactOf(data[c])).pc = pc[c]
            /\ RunAlone(CompactOf(data[c])).result = result[c]
            /\ RunAlone(CompactOf(data[c])).cache = CacheOf(c)

\* A compact cmap is about to be decoded on a table that holds two strings,
\* and its verbose form decodes from there to a map keyed by the keyword.
C16_Witness ==
  /\ AtNode(1)
  /\ ctl[1].v = PyList(<<PyStr(HeadCmap), PyList(<<PyStr(KwA), PyStr(Ref0)>>)>>)
  /\ CacheOf(1).idx = 2
  /\ DecodeWith(VerboseOf(ctl[1].v), FALSE, CacheOf(1)).result
       = PyDict(<< <<Keyword, PyStr(HeadSet)>> >>)

\* ------------------------------------------------------ other tagged values

\* ["~#T", payload] with T none of set, list, ordered-set, cmap
IsGenericTagged(d) ==
  /\ isinstance(d, "list")
  /\ Len(d[2]) = 2
  /\ isinstance(d[2][1], "str")
  /\ startswith(d[2][1][2], TagPrefix)
  /\ SliceFrom(d[2][1][2], 2) \notin {TagSet, TagList, TagOrderedSet, TagCmap}

\* some string node or object name of v has the shape of a reference
RECURSIVE HasRef(_)
HasRef(v) ==
  IF isinstance(v, "str") THEN is_cache_ref(v[2])
  ELSE IF isinstance(v, "list") THEN \E i \in 1..Len(v[2]) : HasRef(v[2][i])
  ELSE IF isinstance(v, "dict")
    THEN \E i \in 1..Len(v[2]) : HasRef(v[2][i][1]) \/ HasRef(v[2][i][2])
  ELSE FALSE

\* the string s is a string node or a key somewhere in the value v
RECURSIVE Mentions(_, _)
Mentions(v, s) ==
  IF isinstance(v, "str") THEN v[2] = s
  ELSE IF isinstance(v, "list") THEN \E i \in 1..Len(v[2]) : Mentions(v[2][i], s)
  ELSE IF isinstance(v, "dict")
    THEN \E i \in 1..Len(v[2]) : Mentions(v[2][i][1], s) \/ Mentions(v[2][i][2], s)
  ELSE FALSE

AtRefHead(c) ==
  /\ AtNode(c)
  /\ isinstance(ctl[c].v, "list")
  /\ ctl[c].v[2] # << >>
  /\ isinstance(ctl[c].v[2][1], "str")
  /\ is_cache_ref(ctl[c].v[2][1][2])
  /\ ctl[c].v[2][1][2] # MapSentinel

RefHeadAt(c) == ctl[c].v[2][1][2]

\* the table of call c holds the head, and what it holds begins "~#"
HeadIsTag(c) ==
  /\ RefHeadAt(c) \in DOMAIN CacheOf(c).map
  /\ startswith(CacheOf(c).map[RefHeadAt(c)], TagPrefix)

\* the array of call c with the stored literal in place of its head
WithLiteralHead(c) ==
  <<PyStr(CacheOf(c).map[RefHeadAt(c)])>> \o Tail(ctl[c].v[2])

\* C18: an array of two or more elements whose head is a reference to a
\* stored literal beginning "~#" goes on as the array with that literal at
\* its head does, and registers nothing; an array whose head reference is
\* not in the table, or refers to a literal that does not begin "~#", goes
\* on as a plain array of all its elements, the head among them.
C18_ReferenceHead ==
  [][\A c \in Calls :
       (AtRefHead(c) /\ ctl'[c] # ctl[c]) =>
         /\ heap' = heap
         /\ IF HeadIsTag(c) /\ Len(ctl[c].v[2]) >= 2
              THEN /\ ctl'[c] = _decode_list(WithLiteralHead(c), stack[c], CacheOf(c)).ctl
                   /\ stack'[c] = _decode_list(WithLiteralHead(c), stack[c], CacheOf(c)).stack
              ELSE /\ ctl'[c] = LoopCtl
                   /\ stack'[c] = Push(stack[c], Frame("elems", ctl[c].v[2]))]_vars

\* After a set of one keyword, the array ["^0", ["^1", 1]] has been decoded
\* as a set of two elements, and nothing more was registered.
C18_Witness ==
  /\ pc[1] = "done"
  /\ data[1] = PyList(<<PyList(<<PyStr(HeadSet), PyList(<<PyStr(KwA)>>)>>),
                        PyList(<<PyStr(Ref0), PyList(<<PyStr(Ref1), IntOf(1)>>)>>)>>)
  /\ result[1] = PyList(<<PyList(<<Keyword>>), PyList(<<Keyword, IntOf(1)>>)>>)
  /\ CacheOf(1).idx = 2

\* ------------------------------------------------------- the entry point

Finished(c) == pc[c] \in {"done", "raised"}

\* C19: the strings ~:foo, ~?t, ~?f, ~i42 and ~d3.14 given to
\* decode_transit return foo, true, false, 42 and 3.14.
C19_ScalarStrings ==
  \A c \in Calls :
    Finished(c) =>
      /\ data[c] = PyStr(<<"~", ":", "f", "o", "o">>) => result[c] = PyStr(<<"f", "o", "o">>)
      /\ data[c] = PyStr(<<"~", "?", "t">>) => result[c] = PyBool(TRUE)
      /\ data[c] = PyStr(<<"~", "?", "f">>) => result[c] = PyBool(FALSE)
      /\ data[c] = PyStr(IntLit) => result[c] = IntOf(42)
      /\ data[c] = PyStr(<<"~", "d", "3", ".", "1", "4">>)
           => result[c] = py_float(<<"3", ".", "1", "4">>)

\* C20: for every text the JSON parser accepts, decode_transit of the text
\* ends as decode_transit of the parsed tree does, whatever the root of the
\* tree is.
C20_TextAsTree ==
  \A c \in Calls :
    (Finished(c) /\ isinstance(data[c], "str") /\ ~IsRaise(json_loads(data[c][2])))
      => /\ pc[c] = RunAlone(json_loads(data[c][2])).pc
         /\ result[c] = RunAlone(json_loads(data[c][2])).result

\* the text given to call c is one json.loads does not parse
Unparseable(c) == isinstance(data[c], "str") /\ IsRaise(json_loads(data[c][2]))

\* C21: a call given text that is not parseable JSON returns that text
\* unchanged and raises nothing.
C21_TextReturned ==
  \A c \in Calls :
    (Finished(c) /\ Unparseable(c)) => (pc[c] = "done" /\ result[c] = data[c])

\* --------------------------------------------------- tagged scalar strings

\* call c was given an array of one string; that string
OneString(c) ==
  /\ isinstance(data[c], "list")
  /\ Len(data[c][2]) = 1
  /\ isinstance(data[c][2][1], "str")

StringOf(c) == data[c][2][1][2]

\* an int object beyond the years 1 to 9999, as milliseconds since 1970
OutOfRange(n) ==
  IF n[2] THEN MagLess(MinInstantMs, n[3]) ELSE MagLess(MaxInstantMs, n[3])

\* the remainder of the tagged string s, tag m, i, d or n, cannot be
\* converted: it is no integer or no float, or no instant of the date range
NotConverted(s) ==
  CASE s[2] \in {"i", "n"} -> IsRaise(py_int(SliceFrom(s, 2)))
    [] s[2] = "d" -> IsRaise(py_float(SliceFrom(s, 2)))
    [] s[2] = "m" -> \/ IsRaise(py_int(SliceFrom(s, 2)))
                     \/ OutOfRange(py_int(SliceFrom(s, 2)))

\* C22: a string of tag m, i, d or n whose remainder cannot be converted
\* (no digits, empty, or an instant outside the date range) decodes to the
\* string itself, unchanged.
C22_LiteralOnFailure ==
  \A c \in Calls :
    (/\ Finished(c) /\ OneString(c)
     /\ Len(StringOf(c)) >= 2 /\ StringOf(c)[1] = "~"
     /\ StringOf(c)[2] \in {"m", "i", "d", "n"}
     /\ NotConverted(StringOf(c)))
      => (pc[c] = "done" /\ result[c] = PyList(<<PyStr(StringOf(c))>>))

\* ----------------------------------------------- the parser called alone

ParseOp(s, ret) ==
  [name |-> "_parse_tagged", s |-> s, as_key |-> FALSE, n |-> 0, ret |-> ret]

\* the characters of the strings the parser is called on: the tilde, the
\* tags it knows, two it does not know, a letter and a digit
ParseChars ==
  {"~", ":", "u", "m", "t", "?", "i", "d", "n", "^", "$", "#", "x", "1"}

ParseStrs == Seqs(ParseChars, MaxLen + 1)

\* _parse_tagged(s), called once
ParseCall(s) ==
  /\ nops = 0
  /\ op' = ParseOp(s, _parse_tagged(s))
  /\ nops' = 1
  /\ UNCHANGED <<heap, pc, data, cref, ctl, stack, result, relay>>

NextParse == \E s \in ParseStrs : ParseCall(s)

SpecParse == Init /\ [][NextParse]_vars

KnownTags == {":", "u", "m", "t", "?", "i", "d", "n", "~", "^"}

\* C23: the parser returns its input unchanged for every string that is
\* shorter than 2 characters, or does not start with "~", or has a second
\* character that is none of : u m t ? i d n ~ ^.
C23_UnknownUnchanged ==
  op.name = "_parse_tagged" =>
    ((Len(op.s) < 2 \/ op.s[1] # "~" \/ op.s[2] \notin KnownTags)
       => op.ret = PyStr(op.s))

\* The parser was called on "~$x" and returned it.
C23_Witness == op = ParseOp(<<"~", "$", "x">>, PyStr(<<"~", "$", "x">>))

\* ---------------------------------------------------------------- objects

\* an object that is not a single-key "~#"-tagged value
IsPlainObject(d) ==
  /\ isinstance(d, "dict")
  /\ ~(/\ Len(d[2]) = 1
       /\ isinstance(d[2][1][1], "str")
       /\ startswith(d[2][1][1][2], TagPrefix))

\* The entries <<decode(name), decode(value)>> of the items ps from index i
\* on: each name decoded as a string in key position before its value, each
\* value as a value, the table passed from one to the next.
RECURSIVE ItemsOf(_, _, _, _)
ItemsOf(ps, i, ch, out) ==
  IF i >= Len(ps) THEN [out |-> out, cache |-> ch]
  ELSE ItemsOf(ps, i + 1,
               DecodeWith(ps[i + 1][2], FALSE, _decode_str(ps[i + 1][1][2], ch, TRUE).cache).cache,
               Append(out,
                      <<_decode_str(ps[i + 1][1][2], ch, TRUE).val,
                        DecodeWith(ps[i + 1][2], FALSE,
                                   _decode_str(ps[i + 1][1][2], ch, TRUE).cache).result>>))

\* C24: for an object that is not a single-key tagged value, every name is
\* decoded as a string in key position and every value as a value, each
\* name before its own value and the entries in the order met: the table
\* ends as that order of calls leaves it, and entries whose names decode to
\* different keys come out in that order.
C24_ObjectInOrder ==
  \A c \in Calls :
    (pc[c] = "done" /\ IsPlainObject(data[c]))
      => /\ CacheOf(c) = ItemsOf(data[c][2], 0, _Cache, << >>).cache
         /\ DistinctKeys(ItemsOf(data[c][2], 0, _Cache, << >>).out)
              => result[c] = PyDict(ItemsOf(data[c][2], 0, _Cache, << >>).out)

\* {"~:aaaa": "~#set", "^1": "^0"} has been decoded: the first name was
\* registered and parsed as a keyword, the second name resolved to the first
\* value, the second value to the first name.
C24_Witness ==
  /\ pc[1] = "done"
  /\ data[1] = PyDict(<< <<PyStr(KwA), PyStr(HeadSet)>>, <<PyStr(Ref1), PyStr(Ref0)>> >>)
  /\ result[1] = PyDict(<< <<Keyword, PyStr(HeadSet)>>, <<PyStr(HeadSet), Keyword>> >>)
  /\ CacheOf(1).idx = 2

\* ------------------------------------------------------------ the traversal

RECURSIVE SumOver(_, _, _)
RECURSIVE Literals(_)

\* the sum of Literals over the elements of xs from index i on; an item of an
\* object counts its name and its value
SumOver(xs, i, items) ==
  IF i > Len(xs) THEN 0
  ELSE (IF items THEN Literals(xs[i][1]) + Literals(xs[i][2]) ELSE Literals(xs[i]))
         + SumOver(xs, i + 1, items)

\* the number of string occurrences of the tree v that are no references
Literals(v) ==
  IF isinstance(v, "str") THEN (IF is_cache_ref(v[2]) THEN 0 ELSE 1)
  ELSE IF isinstance(v, "list") THEN SumOver(v[2], 1, FALSE)
  ELSE IF isinstance(v, "dict") THEN SumOver(v[2], 1, TRUE)
  ELSE 0

\* C25: every node is decoded at most once, so a call never registers more
\* slots than its tree has literal string occurrences (one at most for the
\* array whose only element is a tag literal).
C25_OneRegistrationEach ==
  \A c \in Calls :
    (cref[c] # 0 /\ ~isinstance(data[c], "str"))
      => CacheOf(c).idx <= Literals(data[c])

\* ------------------------------------------------------------- termination

\* C26: for every input tree the call terminates and returns: a call that
\* was started and has no step left to take has returned a value.
C26_EndsReturned ==
  \A c \in Calls :
    (pc[c] # "idle" /\ pc[c] # "run" /\ ~isinstance(data[c], "str")) => pc[c] = "done"

\* ------------------------------------------------------ the stored literals

\* the literals the tables hold
Stored == UNION {{heap[h].map[ref] : ref \in DOMAIN heap[h].map} : h \in 1..Len(heap)}

\* C27: every literal a table holds has 4 characters or more and does not
\* start with "^", so it is no reference code; the literal a lookup returns
\* is none either, and the value of a resolved reference is that literal
\* parsed, with no second lookup.
C27_NoChainedReference ==
  /\ \A lit \in Stored : Len(lit) >= 4 /\ lit[1] # "^" /\ ~is_cache_ref(lit)
  /\ (op.name = "resolve" /\ op.ret # None)
       => /\ ~is_cache_ref(op.ret)
          /\ \A c \in Calls :
               (pc[c] = "run" /\ ctl[c].op = "ret") => ctl[c].v = _parse_tagged(op.ret)

\* In the map ["^ ", "^aaa", "~:aaaa", "^aaa", "^0"] the key "^aaa" was not
\* registered, and the reference "^0" has been looked up once and decoded to
\* the keyword.
C27_Witness ==
  /\ pc[1] = "run"
  /\ data[1] = PyList(<<PyStr(MapSentinel), PyStr(<<"^", "a", "a", "a">>), PyStr(KwA),
                        PyStr(<<"^", "a", "a", "a">>), PyStr(Ref0)>>)
  /\ op = ResolveOp(Ref0, KwA)
  /\ ctl[1] = RetCtl(Keyword)
  /\ CacheOf(1).idx = 1

\* ------------------------------------------------ one slot per occurrence

\* the number of leading elements of xs that are equal to its first
RECURSIVE Run(_, _)
Run(xs, i) == IF i < Len(xs) /\ xs[i + 1] = xs[1] THEN Run(xs, i + 1) ELSE i

\* d is an array of k >= 1 occurrences of one keyword of 4 characters or
\* more, followed by references only
IsRepeated(d) ==
  /\ isinstance(d, "list")
  /\ d[2] # << >>
  /\ isinstance(d[2][1], "str")
  /\ Len(d[2][1][2]) >= 4
  /\ SubSeq(d[2][1][2], 1, 2) = <<"~", ":">>
  /\ \A i \in (Run(d[2], 0) + 1)..Len(d[2]) :
       isinstance(d[2][i], "str") /\ is_cache_ref(d[2][i][2]) /\ d[2][i][2] # MapSentinel

\* C28: k literal occurrences of one cacheable string, with no reference in
\* between, hold the k slots of the indices 0 to k - 1, each with that
\* string, and a later reference to any of the k codes decodes to what the
\* string decodes to.
C28_SlotPerOccurrence ==
  \A c \in Calls :
    (pc[c] = "done" /\ IsRepeated(data[c]))
      => /\ CacheOf(c).idx = Run(data[c][2], 0)
         /\ DOMAIN CacheOf(c).map = {_ref_for(j) : j \in 0..(Run(data[c][2], 0) - 1)}
         /\ \A ref \in DOMAIN CacheOf(c).map : CacheOf(c).map[ref] = data[c][2][1][2]
         /\ \A i \in 1..Len(data[c][2]) :
              (i <= Run(data[c][2], 0) \/ data[c][2][i][2] \in DOMAIN CacheOf(c).map)
                => result[c][2][i] = PyStr(SliceFrom(data[c][2][1][2], 2))

\* The keyword written twice and then the reference "^1": two slots hold
\* the keyword, and the reference to the second decodes to it.
C28_Witness ==
  /\ pc[1] = "done"
  /\ data[1] = PyList(<<PyStr(KwA), PyStr(KwA), PyStr(Ref1)>>)
  /\ result[1] = PyList(<<Keyword, Keyword, Keyword>>)
  /\ CacheOf(1).map = (Ref0 :> KwA) @@ (Ref1 :> KwA)

\* ------------------------------------------------- maps of odd length

OddMap(d) == IsMap(d) /\ Len(FlatOf(d)) % 2 = 1

Front(xs) == SubSeq(xs, 1, Len(xs) - 1)

\* the map d without the last element of its key/value array
Trimmed(d) ==
  IF IsCaretMap(d) THEN PyList(Front(d[2]))
  ELSE IF IsCompactCmap(d) THEN PyList(<<d[2][1], PyList(Front(d[2][2][2]))>>)
  ELSE PyDict(<< <<d[2][1][1], PyList(Front(d[2][1][2][2]))>> >>)

\* two runs end the same way: both return or both raise, with the same
\* value or exception and the same table
SameOutcome(a, b) == a.pc = b.pc /\ a.result = b.result /\ a.cache = b.cache

\* C29: a map whose key/value array has an odd number of elements decodes as
\* the map without the last element does: from the table a call has reached,
\* both end with the same result and the same table, so the last element is
\* not in the result, registers nothing, and leaves the indices of the
\* strings after it as they are without it.
C29_TrailingDropped ==
  \A c \in Calls :
    /\ (AtNode(c) /\ OddMap(ctl[c].v))
         => SameOutcome(DecodeWith(ctl[c].v, ctl[c].as_key, CacheOf(c)),
                        DecodeWith(Trimmed(ctl[c].v), ctl[c].as_key, CacheOf(c)))
    /\ (Finished(c) /\ OddMap(data[c]))
         => /\ RunAlone(Trimmed(data[c])).pc = pc[c]
            /\ RunAlone(Trimmed(data[c])).result = result[c]
            /\ RunAlone(Trimmed(data[c])).cache = CacheOf(c)
            /\ pc[c] = "done" => Len(result[c][2]) <= (Len(FlatOf(data[c])) - 1) \div 2

\* [["^ ", "~:aaaa", 1, "~#set"], "~#list", "^1"] has been decoded: the
\* last element of the map is not in it and holds no slot, so "~#list" took
\* index 1 and "^1" decodes to it.
C29_Witness ==
  /\ pc[1] = "done"
  /\ data[1] = PyList(<<PyList(<<PyStr(MapSentinel), PyStr(KwA), IntOf(1), PyStr(HeadSet)>>),
                        PyStr(HeadList), PyStr(Ref1)>>)
  /\ result[1] = PyList(<<PyDict(<< <<Keyword, IntOf(1)>> >>), PyStr(HeadList), PyStr(HeadList)>>)
  /\ CacheOf(1).map = (Ref0 :> KwA) @@ (Ref1 :> HeadList)

\* ------------------------------------------------- the plugin relay

\* The text frames a plugin sends: not JSON, a JSON value that is no object,
\* or a JSON object with its "type" and, if it has one, its "ids".
SelectionIds == {<< >>, <<"shape-1">>}
Messages ==
  [kind : {"text", "array"}, type : {"none"}, has_ids : {FALSE}, ids : {<< >>}]
    \cup [kind : {"object"}, type : {"selectionchange", "ack", "none"},
          has_ids : {FALSE}, ids : {<< >>}]
    \cup [kind : {"object"}, type : {"selectionchange"},
          has_ids : {TRUE}, ids : SelectionIds]

\* _handle_plugin_message(data): the value of active_selection after it
_handle_plugin_message(m, selection) ==
  IF m.type = "selectionchange"
    THEN (IF m.has_ids THEN m.ids ELSE << >>)
    ELSE selection

is_connected == Cardinality(active_connections) > 0

\* A plugin opens websocket w: websockets.serve starts a _handler task.
Connect(w) ==
  /\ sock[w] = "new"
  /\ sock' = [sock EXCEPT ![w] = "open"]
  /\ hpc' = [hpc EXCEPT ![w] = "start"]
  /\ UNCHANGED <<transit, active_connections, active_selection, send>>

\* The plugin, or the network, closes websocket w.
Disconnect(w) ==
  /\ sock[w] = "open"
  /\ sock' = [sock EXCEPT ![w] = "closed"]
  /\ UNCHANGED <<transit, active_connections, active_selection, hpc, send>>

\* _handler from its start to its first wait for a message
HandlerAdd(w) ==
  /\ hpc[w] = "start"
  /\ active_connections' = active_connections \cup {w}
  /\ hpc' = [hpc EXCEPT ![w] = "recv"]
  /\ UNCHANGED <<transit, active_selection, sock, send>>

\* _handler takes one message: a text that is not JSON is logged, an
\* object goes through _handle_plugin_message, and any other JSON value
\* raises there (it has no get), which ends the handler: the finally clause
\* runs and the library closes the connection.
HandlerMessage(w, m) ==
  /\ hpc[w] = "recv"
  /\ sock[w] = "open"
  /\ IF m.kind = "array"
       THEN /\ active_connections' = active_connections \ {w}
            /\ hpc' = [hpc EXCEPT ![w] = "done"]
            /\ sock' = [sock EXCEPT ![w] = "closed"]
            /\ UNCHANGED active_selection
       ELSE /\ active_selection' =
                 (IF m.kind = "object"
                    THEN _handle_plugin_message(m, active_selection)
                    ELSE active_selection)
            /\ UNCHANGED <<active_connections, hpc, sock>>
  /\ UNCHANGED <<transit, send>>

\* _handler is resumed on a closed websocket: the loop ends and the finally
\* clause removes the websocket.
HandlerExit(w) ==
  /\ hpc[w] = "recv"
  /\ sock[w] = "closed"
  /\ active_connections' = active_connections \ {w}
  /\ hpc' = [hpc EXCEPT ![w] = "done"]
  /\ UNCHANGED <<transit, active_selection, sock, send>>

\* send_command from its call to its first await: False if no websocket is
\* registered, else the copy of the set it will go through.
SendCommand(k) ==
  /\ send[k].at = "idle"
  /\ send' = [send EXCEPT ![k] =
       IF ~is_connected
         THEN [at |-> "done", todo |-> {}, sent |-> {}, seen |-> {},
               ret |-> PyBool(FALSE)]
         ELSE [at |-> "await", todo |-> active_connections, sent |-> {},
               seen |-> active_connections, ret |-> None]]
  /\ UNCHANGED <<transit, active_connections, active_selection, sock, hpc>>

\* One await ws.send(payload) completes: the payload goes out on an open
\* websocket, and ConnectionClosed, raised on a closed one, is passed over.
\* After the last websocket of the copy send_command returns True.
SendTo(k, w) ==
  /\ send[k].at = "await"
  /\ w \in send[k].todo
  /\ send' = [send EXCEPT ![k] =
       [at |-> IF send[k].todo = {w} THEN "done" ELSE "await",
        todo |-> send[k].todo \ {w},
        sent |-> send[k].sent \cup (IF sock[w] = "open" THEN {w} ELSE {}),
        seen |-> send[k].seen,
        ret |-> IF send[k].todo = {w} THEN PyBool(TRUE) ELSE None]]
  /\ UNCHANGED <<transit, active_connections, active_selection, sock, hpc>>

NextRelay ==
  \/ \E w \in Sockets : Connect(w)
  \/ \E w \in Sockets : Disconnect(w)
  \/ \E w \in Sockets : HandlerAdd(w)
  \/ \E w \in Sockets : \E m \in Messages : HandlerMessage(w, m)
  \/ \E w \in Sockets : HandlerExit(w)
  \/ \E k \in Senders : SendCommand(k)
  \/ \E k \in Senders : \E w \in Sockets : SendTo(k, w)

SpecRelay == Init /\ [][NextRelay]_vars

\* C30: a send_command call that has returned True has sent the command on
\* at least one websocket, and one called while no websocket was registered
\* has returned False.
C30_TrueOnlyIfSent ==
  \A k \in Senders :
    send[k].at = "done"
      => /\ send[k].ret = PyBool(TRUE) => send[k].sent # {}
         /\ send[k].seen = {} => send[k].ret = PyBool(FALSE)

====
